---- MODULE Spec2Model ----
(***************************************************************************)
(* Model of the colour-to-theme mapping of theme-extractor:                *)
(*   src/unnamed/part_002          colour primitives, median-cut quantizer *)
(*   src/src/lib/theme-generator.ts  palette reduction, role selection,    *)
(*                                   theme assembly, CSS serialization     *)
(*   src/src/components/screenshot-upload.tsx, src/unnamed/part_003        *)
(*                                   the screenshot upload and its loading *)
(*                                   flag                                  *)
(*                                                                         *)
(* Numbers.  JavaScript numbers are modelled by exact fixed-point          *)
(* integers:                                                               *)
(*   - an RGB channel is an integer (the code never clamps it);            *)
(*   - an HSL record as produced by rgbToHsl / read by hslToRgb holds      *)
(*     tenths (h = 2172 is 217.2 degrees): rgbToHsl rounds to 0.1;         *)
(*   - an HSL record handed to formatHslForShadcn holds hundredths,        *)
(*     because the derived roles multiply a saturation by 0.3;             *)
(*   - a relative luminance is an integer in units of 10^-9.               *)
(* Binary floating-point representation error (the 16th digit) is not      *)
(* modelled.  Strings are TLA+ strings, read character by character.       *)
(***************************************************************************)
EXTENDS Integers, Sequences, FiniteSets, TLC

VARIABLES
    pc,            \* position inside generateTheme
    colorStrings,  \* generateTheme's argument
    idx,           \* number of elements the for-loop has consumed
    colorMap,      \* values of the Map<string, ColorWithFrequency>, insertion order
    sel,           \* the key colours selected from colorMap
    theme,         \* the ExtractedTheme returned
    css,           \* generateCSSOutput's result for that theme
    qpc,           \* position inside medianCutQuantize
    pixels,        \* medianCutQuantize's argument (sorted in place by the code)
    maxColors,     \* medianCutQuantize's second argument
    buckets,       \* the ColorBucket array
    quantized,     \* medianCutQuantize's result
    cpc,           \* which colour primitive is to be applied next
    cstr,          \* parseColor's argument
    crgb,          \* parseColor's result, or rgbToHsl's argument
    chsl,          \* rgbToHsl's result, or hslToRgb's argument
    cback,         \* hslToRgb's result
    upc,           \* position of the upload: idle, pending (img.src set), failed
    isLoading,     \* App's isLoading state
    file,          \* the File handed to processImage
    reader,        \* the file a FileReader is reading, if any
    preview,       \* ScreenshotUpload's preview state
    canvas,        \* the size given to the canvas
    appError,      \* App's error state
    appTheme       \* the colour strings App's theme was generated from

vars == <<pc, colorStrings, idx, colorMap, sel, theme, css,
          qpc, pixels, maxColors, buckets, quantized,
          cpc, cstr, crgb, chsl, cback,
          upc, isLoading, file, reader, preview, canvas, appError, appTheme>>

themeVars == <<pc, colorStrings, idx, colorMap, sel, theme, css>>
quantVars == <<qpc, pixels, maxColors, buckets, quantized>>
convVars == <<cpc, cstr, crgb, chsl, cback>>
uploadVars == <<upc, isLoading, file, reader, preview, canvas, appError, appTheme>>

NULL == [null |-> TRUE]

\* No upload under way: useState(false) for isLoading, useState(null) for
\* preview, error and theme.
UploadIdle ==
    /\ upc = "idle"
    /\ isLoading = FALSE
    /\ file = NULL
    /\ reader = NULL
    /\ preview = NULL
    /\ canvas = NULL
    /\ appError = NULL
    /\ appTheme = NULL

(***************************************************************************)
(* Arithmetic helpers                                                      *)
(***************************************************************************)
Max(a, b) == IF a >= b THEN a ELSE b
Min(a, b) == IF a <= b THEN a ELSE b
Abs(a) == IF a < 0 THEN -a ELSE a

\* Math.round(n / d): nearest integer, halves towards +infinity.
RoundDiv(n, d) ==
    IF d > 0 THEN (2 * n + d) \div (2 * d)
             ELSE (2 * (-n) + (-d)) \div (2 * (-d))

\* Math.ceil(n / d) for d > 0.
CeilDiv(n, d) == -((-n) \div d)

(***************************************************************************)
(* Characters and strings                                                  *)
(***************************************************************************)
CharAt(s, i) == IF i >= 1 /\ i <= Len(s) THEN SubSeq(s, i, i) ELSE ""

HexDigits == <<"0", "1", "2", "3", "4", "5", "6", "7",
               "8", "9", "a", "b", "c", "d", "e", "f">>
UpperCase == <<"A", "B", "C", "D", "E", "F", "G", "H", "I", "J", "K", "L", "M",
               "N", "O", "P", "Q", "R", "S", "T", "U", "V", "W", "X", "Y", "Z">>
LowerCase == <<"a", "b", "c", "d", "e", "f", "g", "h", "i", "j", "k", "l", "m",
               "n", "o", "p", "q", "r", "s", "t", "u", "v", "w", "x", "y", "z">>

IsDigit(c) == \E i \in 1..10 : HexDigits[i] = c
IsHexDigit(c) == \E i \in 1..16 : HexDigits[i] = c
IsSpace(c) == c \in {" ", "\t", "\n", "\r"}
HexVal(c) == (CHOOSE i \in 1..16 : HexDigits[i] = c) - 1

ToLowerChar(c) ==
    IF \E i \in 1..26 : UpperCase[i] = c
    THEN LowerCase[CHOOSE i \in 1..26 : UpperCase[i] = c]
    ELSE c

RECURSIVE toLowerCase(_)
toLowerCase(s) ==
    IF Len(s) = 0 THEN ""
    ELSE ToLowerChar(CharAt(s, 1)) \o toLowerCase(SubSeq(s, 2, Len(s)))

RECURSIVE TrimStart(_)
TrimStart(s) ==
    IF Len(s) > 0 /\ IsSpace(CharAt(s, 1)) THEN TrimStart(SubSeq(s, 2, Len(s))) ELSE s

RECURSIVE TrimEnd(_)
TrimEnd(s) ==
    IF Len(s) > 0 /\ IsSpace(CharAt(s, Len(s)))
    THEN TrimEnd(SubSeq(s, 1, Len(s) - 1)) ELSE s

trim(s) == TrimEnd(TrimStart(s))

startsWith(s, prefix) ==
    Len(s) >= Len(prefix) /\ SubSeq(s, 1, Len(prefix)) = prefix

\* First index >= i that does not hold a digit (\d+ is greedy).
RECURSIVE DigitsEnd(_, _)
DigitsEnd(s, i) == IF IsDigit(CharAt(s, i)) THEN DigitsEnd(s, i + 1) ELSE i

\* First index >= i that does not hold white space (\s*).
RECURSIVE SpaceEnd(_, _)
SpaceEnd(s, i) == IF IsSpace(CharAt(s, i)) THEN SpaceEnd(s, i + 1) ELSE i

\* parseInt(text) of a run of decimal digits.
RECURSIVE parseInt(_)
parseInt(d) ==
    IF Len(d) = 0 THEN 0
    ELSE 10 * parseInt(SubSeq(d, 1, Len(d) - 1)) + HexVal(CharAt(d, Len(d)))

\* parseInt(text, 16) of a run of hex digits.
RECURSIVE parseHex(_)
parseHex(d) ==
    IF Len(d) = 0 THEN 0
    ELSE 16 * parseHex(SubSeq(d, 1, Len(d) - 1)) + HexVal(CharAt(d, Len(d)))

\* Number.prototype.toString(16).
RECURSIVE toString16(_)
toString16(n) ==
    IF n < 0 THEN "-" \o toString16(-n)
    ELSE IF n < 16 THEN HexDigits[n + 1]
    ELSE toString16(n \div 16) \o HexDigits[(n % 16) + 1]

\* String.prototype.padStart(2, '0').
padStart2(s) == IF Len(s) < 2 THEN (IF Len(s) = 0 THEN "00" ELSE "0" \o s) ELSE s

(***************************************************************************)
(* Colour primitives (src/unnamed/part_002)                                *)
(***************************************************************************)
RGB(r, g, b) == [r |-> r, g |-> g, b |-> b]
HSL(h, s, l) == [h |-> h, s |-> s, l |-> l]

\* hexToRgb: /^#?([a-f\d]{2})([a-f\d]{2})([a-f\d]{2})$/i, then the shorthand.
hexToRgb(hex) ==
    LET body == IF startsWith(hex, "#") THEN SubSeq(hex, 2, Len(hex)) ELSE hex
        low == toLowerCase(body)
        allHex == \A i \in 1..Len(low) : IsHexDigit(CharAt(low, i))
    IN  IF Len(low) = 6 /\ allHex
        THEN RGB(parseHex(SubSeq(low, 1, 2)), parseHex(SubSeq(low, 3, 4)),
                 parseHex(SubSeq(low, 5, 6)))
        ELSE IF Len(low) = 3 /\ allHex
        THEN RGB(parseHex(CharAt(low, 1) \o CharAt(low, 1)),
                 parseHex(CharAt(low, 2) \o CharAt(low, 2)),
                 parseHex(CharAt(low, 3) \o CharAt(low, 3)))
        ELSE NULL

\* Mutant of rgbToHsl: the components are rounded to whole units.
rgbToHslWhole(rgb) ==
    LET mx == Max(rgb.r, Max(rgb.g, rgb.b))
        mn == Min(rgb.r, Min(rgb.g, rgb.b))
        d == mx - mn
        l == 10 * RoundDiv(100 * (mx + mn), 510)
        s == IF mx = mn THEN 0
             ELSE IF mx + mn > 255 THEN 10 * RoundDiv(100 * d, 510 - mx - mn)
             ELSE 10 * RoundDiv(100 * d, mx + mn)
        h == IF mx = mn THEN 0
             ELSE IF mx = rgb.r
                  THEN 10 * RoundDiv(60 * (rgb.g - rgb.b)
                                     + (IF rgb.g < rgb.b THEN 360 * d ELSE 0), d)
             ELSE IF mx = rgb.g
                  THEN 10 * RoundDiv(60 * (rgb.b - rgb.r) + 120 * d, d)
             ELSE 10 * RoundDiv(60 * (rgb.r - rgb.g) + 240 * d, d)
    IN  HSL(h, s, l)

\* rgbToHsl, exactly: the result holds tenths.
rgbToHsl(rgb) ==
    LET mx == Max(rgb.r, Max(rgb.g, rgb.b))
        mn == Min(rgb.r, Min(rgb.g, rgb.b))
        d == mx - mn
        l == RoundDiv(1000 * (mx + mn), 510)
        s == IF mx = mn THEN 0
             ELSE IF mx + mn > 255 THEN RoundDiv(1000 * d, 510 - mx - mn)
             ELSE RoundDiv(1000 * d, mx + mn)
        h == IF mx = mn THEN 0
             ELSE IF mx = rgb.r
                  THEN RoundDiv(600 * (rgb.g - rgb.b)
                                + (IF rgb.g < rgb.b THEN 3600 * d ELSE 0), d)
             ELSE IF mx = rgb.g
                  THEN RoundDiv(600 * (rgb.b - rgb.r) + 1200 * d, d)
             ELSE RoundDiv(600 * (rgb.r - rgb.g) + 2400 * d, d)
    IN  HSL(h, s, l)

\* hue2rgb of hslToRgb: p, q in 10^-6, t in 1/3600 of a turn;
\* the result is the channel Math.round(value * 255).
hue2rgb(p, q, t0) ==
    LET t1 == IF t0 < 0 THEN t0 + 3600 ELSE t0
        t == IF t1 > 3600 THEN t1 - 3600 ELSE t1
        \* value * 600, in 10^-6
        v600 == IF t < 600 THEN 600 * p + (q - p) * t
                ELSE IF t < 1800 THEN 600 * q
                ELSE IF t < 2400 THEN 600 * p + (q - p) * (2400 - t)
                ELSE 600 * p
        \* Math.round(255 * v600 / (600 * 10^6)) = Math.round(17 * v600 / 40000000)
        whole == v600 \div 40000000
        rest == v600 % 40000000
    IN  17 * whole + RoundDiv(17 * rest, 40000000)

\* hslToRgb on an HSL record holding tenths.
hslToRgb(hsl) ==
    IF hsl.s = 0
    THEN LET c == RoundDiv(255 * hsl.l, 1000) IN RGB(c, c, c)
    ELSE LET q == IF hsl.l < 500 THEN hsl.l * (1000 + hsl.s)
                  ELSE hsl.l * 1000 + hsl.s * 1000 - hsl.l * hsl.s
             p == 2000 * hsl.l - q
         IN  RGB(hue2rgb(p, q, hsl.h + 1200), hue2rgb(p, q, hsl.h),
                 hue2rgb(p, q, hsl.h - 1200))

\* The sRGB linearisation Math.pow((c/255 + 0.055) / 1.055, 2.4) of getLuminance
\* for the channels 11..400, in 10^-5.
sRGBPow ==
    <<
       335, 368, 402, 439, 478, 518, 561, 605, 651, 700, 750, 802, 857,
       913, 972, 1033, 1096, 1161, 1229, 1298, 1370, 1444, 1521, 1600, 1681, 1764,
       1850, 1938, 2029, 2122, 2217, 2315, 2416, 2519, 2624, 2732, 2843, 2956, 3071,
       3190, 3310, 3434, 3560, 3689, 3820, 3955, 4092, 4231, 4374, 4519, 4667, 4817,
       4971, 5127, 5286, 5448, 5613, 5781, 5951, 6125, 6301, 6480, 6663, 6848, 7036,
       7227, 7421, 7619, 7819, 8022, 8228, 8438, 8650, 8866, 9084, 9306, 9531, 9759,
       9990, 10224, 10462, 10702, 10946, 11193, 11444, 11697, 11954, 12214, 12477, 12744, 13014,
       13287, 13563, 13843, 14126, 14413, 14703, 14996, 15293, 15593, 15896, 16203, 16513, 16827,
       17144, 17465, 17789, 18116, 18447, 18782, 19120, 19462, 19807, 20156, 20508, 20864, 21223,
       21586, 21953, 22323, 22697, 23074, 23455, 23840, 24228, 24620, 25016, 25415, 25818, 26225,
       26636, 27050, 27468, 27889, 28315, 28744, 29177, 29614, 30054, 30499, 30947, 31399, 31855,
       32314, 32778, 33245, 33716, 34191, 34670, 35153, 35640, 36131, 36625, 37124, 37626, 38133,
       38643, 39157, 39676, 40198, 40724, 41254, 41789, 42327, 42869, 43415, 43966, 44520, 45079,
       45641, 46208, 46778, 47353, 47932, 48515, 49102, 49693, 50289, 50888, 51492, 52100, 52712,
       53328, 53948, 54572, 55201, 55834, 56471, 57112, 57758, 58408, 59062, 59720, 60383, 61050,
       61721, 62396, 63076, 63760, 64448, 65141, 65837, 66539, 67244, 67954, 68669, 69387, 70110,
       70838, 71569, 72306, 73046, 73791, 74540, 75294, 76052, 76815, 77582, 78354, 79130, 79910,
       80695, 81485, 82279, 83077, 83880, 84687, 85499, 86316, 87137, 87962, 88792, 89627, 90466,
       91310, 92158, 93011, 93869, 94731, 95597, 96469, 97345, 98225, 99110, 100000, 100894, 101794,
       102697, 103606, 104519, 105436, 106359, 107286, 108218, 109154, 110096, 111042, 111992, 112948, 113908,
       114873, 115842, 116817, 117796, 118780, 119769, 120762, 121760, 122763, 123771, 124784, 125801, 126824,
       127851, 128883, 129920, 130962, 132008, 133060, 134116, 135177, 136243, 137314, 138390, 139470, 140556,
       141647, 142742, 143843, 144948, 146058, 147173, 148293, 149419, 150549, 151684, 152824, 153969, 155119,
       156274, 157434, 158599, 159769, 160944, 162124, 163309, 164499, 165694, 166895, 168100, 169310, 170526,
       171746, 172972, 174202, 175438, 176679, 177925, 179176, 180432, 181693, 182960, 184231, 185508, 186790,
       188077, 189369, 190666, 191969, 193277, 194589, 195907, 197231, 198559, 199893, 201232, 202576, 203925,
       205279, 206639, 208004, 209374, 210750, 212131, 213517, 214908, 216304, 217706, 219113, 220526, 221943,
       223366, 224795, 226228, 227667, 229111, 230561, 232016, 233476, 234942, 236413, 237889, 239371, 240858,
       242350, 243848, 245351, 246860, 248374, 249893, 251418, 252948, 254484, 256025, 257572, 259123, 260681,
       262244, 263812, 265386, 266965, 268549, 270140, 271735, 273336, 274943, 276555, 278173, 279796, 281424
    >>

\* c <= 0.03928 ? c / 12.92 : Math.pow(...), for channel value ch, in 10^-5.
\* ch / 255 <= 0.03928 exactly when ch <= 10.
Linearize(ch) ==
    IF ch <= 10 THEN RoundDiv(ch * 1000000, 32946) ELSE sRGBPow[ch - 10]

\* getLuminance, in 10^-9.
getLuminance(rgb) ==
    2126 * Linearize(rgb.r) + 7152 * Linearize(rgb.g) + 722 * Linearize(rgb.b)

\* Mutant of isLightColor: the threshold is 0.9.
isLightColorStrict(rgb) == getLuminance(rgb) > 900000000

\* isLightColor: luminance > 0.5.
isLightColor(rgb) == getLuminance(rgb) > 500000000

\* colorDistance squared: Math.sqrt is strictly increasing on these integers,
\* so order and ties under colorDistance are those of the squared distance.
colorDistance(c1, c2) ==
    (c1.r - c2.r) * (c1.r - c2.r) + (c1.g - c2.g) * (c1.g - c2.g)
    + (c1.b - c2.b) * (c1.b - c2.b)

\* /rgba?\((\d+),\s*(\d+),\s*(\d+)/ tried at index p: the RGB it captures, or NULL.
rgbMatchAt(s, p) ==
    LET open == IF CharAt(s, p + 3) = "a" THEN p + 4 ELSE p + 3
        r1 == open + 1
        r2 == DigitsEnd(s, r1)
        g1 == SpaceEnd(s, r2 + 1)
        g2 == DigitsEnd(s, g1)
        b1 == SpaceEnd(s, g2 + 1)
        b2 == DigitsEnd(s, b1)
    IN  IF /\ SubSeq(s, p, Min(p + 2, Len(s))) = "rgb"
           /\ CharAt(s, open) = "("
           /\ r2 > r1 /\ CharAt(s, r2) = ","
           /\ g2 > g1 /\ CharAt(s, g2) = ","
           /\ b2 > b1
        THEN RGB(parseInt(SubSeq(s, r1, r2 - 1)), parseInt(SubSeq(s, g1, g2 - 1)),
                 parseInt(SubSeq(s, b1, b2 - 1)))
        ELSE NULL

\* End of \d+(?:\.\d+)? started at index i (i itself when there is no digit).
NumberEnd(s, i) ==
    LET e == DigitsEnd(s, i)
    IN  IF e > i /\ CharAt(s, e) = "." /\ DigitsEnd(s, e + 1) > e + 1
        THEN DigitsEnd(s, e + 1) ELSE e

\* parseFloat of the text of \d+(?:\.\d+)?, in tenths.  The decimal literals of
\* the modelled inputs carry at most one fractional digit.
parseFloat(t) ==
    LET e == DigitsEnd(t, 1)
    IN  10 * parseInt(SubSeq(t, 1, e - 1))
        + (IF e < Len(t) THEN HexVal(CharAt(t, e + 1)) ELSE 0)

\* /hsla?\((\d+(?:\.\d+)?),\s*(\d+(?:\.\d+)?)%?,\s*(\d+(?:\.\d+)?)%?/ tried at
\* index p: the HSL it captures (tenths), or NULL.
hslMatchAt(s, p) ==
    LET open == IF CharAt(s, p + 3) = "a" THEN p + 4 ELSE p + 3
        h1 == open + 1
        h2 == NumberEnd(s, h1)
        s1 == SpaceEnd(s, h2 + 1)
        s2 == NumberEnd(s, s1)
        sc == IF CharAt(s, s2) = "%" THEN s2 + 1 ELSE s2
        l1 == SpaceEnd(s, sc + 1)
        l2 == NumberEnd(s, l1)
    IN  IF /\ SubSeq(s, p, Min(p + 2, Len(s))) = "hsl"
           /\ CharAt(s, open) = "("
           /\ h2 > h1 /\ CharAt(s, h2) = ","
           /\ s2 > s1 /\ CharAt(s, sc) = ","
           /\ l2 > l1
        THEN HSL(parseFloat(SubSeq(s, h1, h2 - 1)), parseFloat(SubSeq(s, s1, s2 - 1)),
                 parseFloat(SubSeq(s, l1, l2 - 1)))
        ELSE NULL

\* String.prototype.match without the g flag reports the leftmost match: the
\* least of the matching positions ps, 0 when there is none.
FirstMatch(ps) ==
    IF ps = {} THEN 0 ELSE CHOOSE p \in ps : \A o \in ps : p <= o

\* The namedColors table.
namedColors ==
    <<<<"white", "#ffffff">>, <<"black", "#000000">>, <<"red", "#ff0000">>,
      <<"green", "#00ff00">>, <<"blue", "#0000ff">>, <<"yellow", "#ffff00">>,
      <<"cyan", "#00ffff">>, <<"magenta", "#ff00ff">>, <<"gray", "#808080">>,
      <<"grey", "#808080">>, <<"orange", "#ffa500">>, <<"purple", "#800080">>,
      <<"pink", "#ffc0cb">>, <<"transparent", "#00000000">>>>

\* parseColor: the RGB of a colour string, or NULL.
parseColor(colorStr) ==
    LET color == toLowerCase(trim(colorStr))
        rgbAt == FirstMatch({p \in 1..Len(color) : rgbMatchAt(color, p) # NULL})
        hslAt == FirstMatch({p \in 1..Len(color) : hslMatchAt(color, p) # NULL})
        named == {i \in 1..Len(namedColors) : namedColors[i][1] = color}
    IN  IF startsWith(color, "#") THEN hexToRgb(color)
        ELSE IF rgbAt # 0 THEN rgbMatchAt(color, rgbAt)
        ELSE IF hslAt # 0 THEN hslToRgb(hslMatchAt(color, hslAt))
        ELSE IF named # {} THEN hexToRgb(namedColors[CHOOSE i \in named : TRUE][2])
        ELSE NULL

\* Lines 35-42: the HSL record parseColor hands to hslToRgb, NULL when the
\* string is resolved by another branch.
hslArgument(colorStr) ==
    LET color == toLowerCase(trim(colorStr))
        rgbAt == FirstMatch({p \in 1..Len(color) : rgbMatchAt(color, p) # NULL})
        hslAt == FirstMatch({p \in 1..Len(color) : hslMatchAt(color, p) # NULL})
    IN  IF startsWith(color, "#") \/ rgbAt # 0 \/ hslAt = 0 THEN NULL
        ELSE hslMatchAt(color, hslAt)

\* `${h} ${s}% ${l}%` of numbers held in hundredths: the shortest decimal.
NumberToString(v) ==
    LET a == Abs(v)
        frac == a % 100
    IN  (IF v < 0 THEN "-" ELSE "") \o ToString(a \div 100)
        \o (IF frac = 0 THEN ""
            ELSE IF frac % 10 = 0 THEN "." \o ToString(frac \div 10)
            ELSE "." \o ToString(frac \div 10) \o ToString(frac % 10))

\* formatHslForShadcn on an HSL record holding hundredths: no clamping, no wrapper.
formatHslForShadcn(hsl) ==
    NumberToString(hsl.h) \o " " \o NumberToString(hsl.s) \o "% "
    \o NumberToString(hsl.l) \o "%"

(***************************************************************************)
(* Array helpers                                                           *)
(***************************************************************************)
\* Array.prototype.sort((a, b) => key(b) - key(a)): the stable arrangement of
\* items by descending key, keys[i] being the key of items[i].
SortDescending(items, keys) ==
    LET n == Len(items)
        rank(i) == Cardinality({j \in 1..n :
                       keys[j] > keys[i] \/ (keys[j] = keys[i] /\ j < i)}) + 1
    IN  [k \in 1..n |-> items[CHOOSE i \in 1..n : rank(i) = k]]

\* Array.prototype.filter is SelectSeq: the kept elements in their original
\* order.

RECURSIVE Sum(_)
Sum(nums) == IF Len(nums) = 0 THEN 0 ELSE Head(nums) + Sum(Tail(nums))

(***************************************************************************)
(* Palette reduction (src/src/lib/theme-generator.ts, generateTheme 224-244)*)
(***************************************************************************)
\* `#${r.toString(16).padStart(2,'0')}${g...}${b...}`
toHex(rgb) ==
    "#" \o padStart2(toString16(rgb.r)) \o padStart2(toString16(rgb.g))
        \o padStart2(toString16(rgb.b))

\* Mutant of reduceColor: a repeated colour is found only when it is the entry
\* added last.
reduceColorAdjacent(cm, colorStr) ==
    LET rgb == parseColor(colorStr)
    IN  IF rgb = NULL THEN cm
        ELSE LET hex == toHex(rgb)
             IN  IF Len(cm) > 0 /\ cm[Len(cm)].hex = hex
                 THEN [cm EXCEPT ![Len(cm)].frequency = @ + 1]
                 ELSE Append(cm, [color |-> rgb, hsl |-> rgbToHsl(rgb),
                                  frequency |-> 1, hex |-> hex])

\* Mutant of reduceColor: a repeated colour is not counted again.
reduceColorNoCount(cm, colorStr) ==
    LET rgb == parseColor(colorStr)
    IN  IF rgb = NULL THEN cm
        ELSE LET hex == toHex(rgb)
             IN  IF \E i \in 1..Len(cm) : cm[i].hex = hex
                 THEN cm
                 ELSE Append(cm, [color |-> rgb, hsl |-> rgbToHsl(rgb),
                                  frequency |-> 1, hex |-> hex])

\* Mutant of reduceColor: a string parseColor rejects counts as black.
reduceColorInvalidAsBlack(cm, colorStr) ==
    LET found == parseColor(colorStr)
        rgb == IF found = NULL THEN RGB(0, 0, 0) ELSE found
        hex == toHex(rgb)
        at == {i \in 1..Len(cm) : cm[i].hex = hex}
    IN  IF at # {}
        THEN [cm EXCEPT ![CHOOSE i \in at : TRUE].frequency = @ + 1]
        ELSE Append(cm, [color |-> rgb, hsl |-> rgbToHsl(rgb),
                         frequency |-> 1, hex |-> hex])

\* One iteration of the for-loop over colorStrings: cm is the array of the
\* Map's values in insertion order.
reduceColor(cm, colorStr) ==
    LET rgb == parseColor(colorStr)
    IN  IF rgb = NULL THEN cm
        ELSE LET hex == toHex(rgb)
                 at == {i \in 1..Len(cm) : cm[i].hex = hex}
             IN  IF at # {}
                 THEN [cm EXCEPT ![CHOOSE i \in at : TRUE].frequency = @ + 1]
                 ELSE Append(cm, [color |-> rgb, hsl |-> rgbToHsl(rgb),
                                  frequency |-> 1, hex |-> hex])

\* The whole loop: Array.from(colorMap.values()).
RECURSIVE reduceColors(_)
reduceColors(strs) ==
    IF Len(strs) = 0 THEN <<>>
    ELSE reduceColor(reduceColors(SubSeq(strs, 1, Len(strs) - 1)), strs[Len(strs)])

(***************************************************************************)
(* Role selection (theme-generator.ts 51-219)                              *)
(***************************************************************************)
\* Mutant of sortColorsByLuminance: darkest first.
sortColorsByLuminanceAscending(colors) ==
    SortDescending(colors, [i \in 1..Len(colors) |-> 0 - getLuminance(colors[i].color)])

sortColorsByLuminance(colors) ==
    SortDescending(colors, [i \in 1..Len(colors) |-> getLuminance(colors[i].color)])

\* Mutant of colorsAfterSelection: line 52 sorts the array it was given.
colorsSortedInPlace(colors) == sortColorsByLuminance(colors)

\* The colours array after key-colour selection.  Every sort in lines 51-185
\* acts on an array of its own: the spread copy of line 52, the filter
\* results of lines 63, 117 and 169, the bucket arrays filled at line 96.
colorsAfterSelection(colors) == colors

\* The colours array after the display sort: filter (line 363) returns a new
\* array and sort (line 364) orders that one.
colorsAfterDisplaySort(colors) == colors

\* Mutant of findForegroundColor: the nearest candidate is taken.
findForegroundColorNearest(background, colors) ==
    LET bgIsLight == isLightColor(background)
        candidates == SelectSeq(colors, LAMBDA c : isLightColor(c.color) # bgIsLight)
        sorted == SortDescending(candidates,
                      [i \in 1..Len(candidates) |->
                          0 - colorDistance(candidates[i].color, background)])
    IN  IF Len(candidates) = 0 THEN NULL ELSE sorted[1]

\* Mutant of findForegroundColor: every colour is a candidate.
findForegroundColorNoFilter(background, colors) ==
    LET sorted == SortDescending(colors,
                      [i \in 1..Len(colors) |->
                          colorDistance(colors[i].color, background)])
    IN  IF Len(colors) = 0 THEN NULL ELSE sorted[1]

findForegroundColor(background, colors) ==
    LET bgIsLight == isLightColor(background)
        candidates == SelectSeq(colors, LAMBDA c : isLightColor(c.color) # bgIsLight)
        sorted == SortDescending(candidates,
                      [i \in 1..Len(candidates) |->
                          colorDistance(candidates[i].color, background)])
    IN  IF Len(candidates) = 0 THEN NULL ELSE sorted[1]

\* Mutant of hueBucket: the quotient is truncated.
hueBucketTruncated(color) == ((color.hsl.h \div 300) * 30) % 360

\* Math.round(color.hsl.h / 30) * 30 % 360, in degrees.
hueBucket(color) == (RoundDiv(color.hsl.h, 300) * 30) % 360

\* Mutant of groupColorsByHue: colours of saturation below 30 are skipped.
groupColorsByHueStrict(colors) ==
    LET kept == SelectSeq(colors, LAMBDA c :
                    ~(c.hsl.s < 300) /\ ~(c.hsl.l < 150 \/ c.hsl.l > 900))
        firsts == SelectSeq([i \in 1..Len(kept) |-> i], LAMBDA i :
                    \A j \in 1..(i - 1) : hueBucket(kept[j]) # hueBucket(kept[i]))
    IN  [k \in 1..Len(firsts) |->
            [hue |-> hueBucket(kept[firsts[k]]),
             colors |-> SelectSeq(kept, LAMBDA c :
                            hueBucket(c) = hueBucket(kept[firsts[k]]))]]

\* The Map of groupColorsByHue as the sequence of its entries
\* [hue, colors], in insertion order.
groupColorsByHue(colors) ==
    LET kept == SelectSeq(colors, LAMBDA c :
                    ~(c.hsl.s < 150) /\ ~(c.hsl.l < 150 \/ c.hsl.l > 900))
        firsts == SelectSeq([i \in 1..Len(kept) |-> i], LAMBDA i :
                    \A j \in 1..(i - 1) : hueBucket(kept[j]) # hueBucket(kept[i]))
    IN  [k \in 1..Len(firsts) |->
            [hue |-> hueBucket(kept[firsts[k]]),
             colors |-> SelectSeq(kept, LAMBDA c :
                            hueBucket(c) = hueBucket(kept[firsts[k]]))]]

\* isLikelyUIColor: h in degrees; s is the average saturation
\* s.num / s.den, in tenths.
isLikelyUIColor(hsl) ==
    LET isRedOrange == (hsl.h >= 0 /\ hsl.h <= 30) \/ (hsl.h >= 330 /\ hsl.h <= 360)
    IN  isRedOrange /\ hsl.s.num > 700 * hsl.s.den

\* Mutant of groupScore: no group is penalised.
groupScoreUnpenalised(group) ==
    LET groupColors == group.colors
        n == Len(groupColors)
        totalFrequency == Sum([i \in 1..n |-> groupColors[i].frequency])
        saturation == Sum([i \in 1..n |-> groupColors[i].hsl.s])
    IN  [num |-> (70 * totalFrequency * n + 3 * saturation) * 10, den |-> n]

\* The score of one hue group, (totalFrequency * 0.7 + avgSaturation * 0.3)
\* * uiPenalty, as the exact fraction num / (1000 * den).
groupScore(group) ==
    LET groupColors == group.colors
        n == Len(groupColors)
        totalFrequency == Sum([i \in 1..n |-> groupColors[i].frequency])
        avgSaturation == [num |-> Sum([i \in 1..n |-> groupColors[i].hsl.s]), den |-> n]
        avgHsl == [h |-> group.hue, s |-> avgSaturation,
                   l |-> [num |-> Sum([i \in 1..n |-> groupColors[i].hsl.l]), den |-> n]]
        uiPenalty == IF isLikelyUIColor(avgHsl) THEN 3 ELSE 10
    IN  [num |-> (70 * totalFrequency * n + 3 * avgSaturation.num) * uiPenalty,
         den |-> n]

ScoreGreater(a, b) == a.num * b.den > b.num * a.den

\* The group the scoring loop leaves in bestGroup: the first of the best.
bestGroupOf(hueGroups) ==
    hueGroups[CHOOSE k \in 1..Len(hueGroups) :
        /\ \A j \in 1..Len(hueGroups) :
               ~ScoreGreater(groupScore(hueGroups[j]), groupScore(hueGroups[k]))
        /\ \A j \in 1..(k - 1) :
               ScoreGreater(groupScore(hueGroups[k]), groupScore(hueGroups[j]))]

\* Mutant of findPrimaryColor: the best group is not sorted.
findPrimaryColorUnsorted(colors) ==
    LET hueGroups == groupColorsByHue(colors)
        candidates == SelectSeq(colors, LAMBDA c :
                          c.hsl.s > 200 /\ c.hsl.l > 150 /\ c.hsl.l < 850)
        byFrequency == SortDescending(candidates,
                          [i \in 1..Len(candidates) |-> candidates[i].frequency])
    IN  IF Len(hueGroups) = 0
        THEN (IF Len(candidates) = 0 THEN NULL ELSE byFrequency[1])
        ELSE bestGroupOf(hueGroups).colors[1]

findPrimaryColor(colors) ==
    LET hueGroups == groupColorsByHue(colors)
        candidates == SelectSeq(colors, LAMBDA c :
                          c.hsl.s > 200 /\ c.hsl.l > 150 /\ c.hsl.l < 850)
        byFrequency == SortDescending(candidates,
                          [i \in 1..Len(candidates) |-> candidates[i].frequency])
        groupColors == bestGroupOf(hueGroups).colors
        sorted == SortDescending(groupColors,
                      [i \in 1..Len(groupColors) |->
                          groupColors[i].frequency * 20 + groupColors[i].hsl.s])
    IN  IF Len(hueGroups) = 0
        THEN (IF Len(candidates) = 0 THEN NULL ELSE byFrequency[1])
        ELSE sorted[1]

\* Mutant of findAccentColor: any lightness is eligible.
findAccentColorAnyLightness(colors, primaryHue) ==
    LET candidates == SelectSeq(colors, LAMBDA c :
            /\ ~(c.hsl.s < 250)
            /\ LET hueDiff == Abs(c.hsl.h - primaryHue)
                   hueDistance == Min(hueDiff, 3600 - hueDiff)
               IN  hueDistance > 600)
        sorted == SortDescending(candidates,
                      [i \in 1..Len(candidates) |-> candidates[i].frequency])
    IN  IF Len(candidates) = 0 THEN NULL ELSE sorted[1]

\* Mutant of findAccentColor: the least frequent candidate is taken.
findAccentColorRarest(colors, primaryHue) ==
    LET candidates == SelectSeq(colors, LAMBDA c :
            /\ ~(c.hsl.s < 250)
            /\ ~(c.hsl.l < 200 \/ c.hsl.l > 800)
            /\ LET hueDiff == Abs(c.hsl.h - primaryHue)
                   hueDistance == Min(hueDiff, 3600 - hueDiff)
               IN  hueDistance > 600)
        sorted == SortDescending(candidates,
                      [i \in 1..Len(candidates) |-> 0 - candidates[i].frequency])
    IN  IF Len(candidates) = 0 THEN NULL ELSE sorted[1]

findAccentColor(colors, primaryHue) ==
    LET candidates == SelectSeq(colors, LAMBDA c :
            /\ ~(c.hsl.s < 250)
            /\ ~(c.hsl.l < 200 \/ c.hsl.l > 800)
            /\ LET hueDiff == Abs(c.hsl.h - primaryHue)
                   hueDistance == Min(hueDiff, 3600 - hueDiff)
               IN  hueDistance > 600)
        sorted == SortDescending(candidates,
                      [i \in 1..Len(candidates) |-> candidates[i].frequency])
    IN  IF Len(candidates) = 0 THEN NULL ELSE sorted[1]

\* An HSL record of rgbToHsl (tenths) as one in hundredths.
Hundredths(hsl) == HSL(10 * hsl.h, 10 * hsl.s, 10 * hsl.l)

\* muteColor: tenths in, hundredths out.
muteColor(hsl, lightMode) ==
    IF lightMode
    THEN HSL(10 * hsl.h, Min(3 * hsl.s, 1500), Max(10 * hsl.l, 9500))
    ELSE HSL(10 * hsl.h, Min(3 * hsl.s, 1500), Min(10 * hsl.l, 1500))

\* generateBorderColor: tenths in, hundredths out.
generateBorderColor(backgroundHsl, lightMode) ==
    IF lightMode
    THEN HSL(10 * backgroundHsl.h, Min(10 * backgroundHsl.s + 1000, 4000),
             Max(10 * backgroundHsl.l - 1000, 8500))
    ELSE HSL(10 * backgroundHsl.h, Min(10 * backgroundHsl.s + 1000, 4000),
             Min(10 * backgroundHsl.l + 1500, 2500))

(***************************************************************************)
(* generateTheme (theme-generator.ts 222-377)                              *)
(***************************************************************************)
\* Mutant of defaultLight: pure black.
defaultLightBlack == RGB(0, 0, 0)
defaultLight == RGB(255, 255, 255)
\* Mutant of defaultDark: pure black.
defaultDarkBlack == RGB(0, 0, 0)
defaultDark == RGB(9, 9, 11)
defaultPrimary == RGB(24, 24, 27)

\* Lines 246-291: the key colours selected from the reduced colour array.
selectRoles(colors) ==
    LET sortedByLuminance == sortColorsByLuminance(colors)
        third == CeilDiv(Len(sortedByLuminance), 3)
        lightestColors == SubSeq(sortedByLuminance, 1, third)
        darkestColors == SubSeq(sortedByLuminance,
                                Len(sortedByLuminance) - third + 1,
                                Len(sortedByLuminance))
        primaryCandidate == findPrimaryColor(colors)
        lightBackground == IF Len(lightestColors) > 0
                           THEN lightestColors[1].color ELSE defaultLight
        darkBackground == IF Len(darkestColors) > 0
                          THEN darkestColors[Len(darkestColors)].color ELSE defaultDark
        lightFound == findForegroundColor(lightBackground, colors)
        darkFound == findForegroundColor(darkBackground, colors)
        primary == IF primaryCandidate # NULL THEN primaryCandidate.color
                   ELSE defaultPrimary
        primaryHsl == rgbToHsl(primary)
        accentCandidate == findAccentColor(colors, primaryHsl.h)
    IN  [lightBackground |-> lightBackground,
         darkBackground |-> darkBackground,
         lightFound |-> lightFound,
         darkFound |-> darkFound,
         lightForeground |-> IF lightFound # NULL THEN lightFound.color ELSE defaultDark,
         darkForeground |-> IF darkFound # NULL THEN darkFound.color ELSE defaultLight,
         primaryCandidate |-> primaryCandidate,
         primary |-> primary,
         primaryHsl |-> primaryHsl,
         accentCandidate |-> accentCandidate,
         accentHsl |-> IF accentCandidate # NULL THEN accentCandidate.hsl
                       ELSE HSL((primaryHsl.h + 1800) % 3600,
                                Min(primaryHsl.s, 600), primaryHsl.l)]

\* The HSL values (hundredths) that lines 310-330 hand to formatHslForShadcn.
lightHsl(s) ==
    LET primaryHsl == s.primaryHsl
        borderLightHsl == generateBorderColor(rgbToHsl(s.lightBackground), TRUE)
    IN  [background |-> Hundredths(rgbToHsl(s.lightBackground)),
         foreground |-> Hundredths(rgbToHsl(s.lightForeground)),
         card |-> Hundredths(rgbToHsl(s.lightBackground)),
         cardForeground |-> Hundredths(rgbToHsl(s.lightForeground)),
         popover |-> Hundredths(rgbToHsl(s.lightBackground)),
         popoverForeground |-> Hundredths(rgbToHsl(s.lightForeground)),
         primary |-> Hundredths(primaryHsl),
         primaryForeground |->
             IF isLightColor(s.primary)
             THEN HSL(10 * primaryHsl.h, Min(10 * primaryHsl.s, 5000), 1000)
             ELSE HSL(10 * primaryHsl.h, Min(10 * primaryHsl.s, 5000), 9800),
         secondary |-> HSL(10 * primaryHsl.h, Max(3 * primaryHsl.s, 1000), 9600),
         secondaryForeground |-> Hundredths(primaryHsl),
         muted |-> muteColor(rgbToHsl(s.lightBackground), TRUE),
         mutedForeground |-> HSL(10 * primaryHsl.h, 1600, 4700),
         accent |-> Hundredths(s.accentHsl),
         accentForeground |-> Hundredths(primaryHsl),
         border |-> borderLightHsl,
         input |-> borderLightHsl,
         ring |-> Hundredths(primaryHsl)]

\* Mutant of darkHsl: the dark theme repeats the light theme's values.
darkHslAsLight(s) == lightHsl(s)

\* The HSL values (hundredths) that lines 332-359 hand to formatHslForShadcn.
darkHsl(s) ==
    LET primaryHsl == s.primaryHsl
        darkPrimaryHsl == HSL(10 * primaryHsl.h, 10 * primaryHsl.s,
                              Min(10 * primaryHsl.l + 2000, 9000))
        borderDarkHsl == generateBorderColor(rgbToHsl(s.darkBackground), FALSE)
    IN  [background |-> Hundredths(rgbToHsl(s.darkBackground)),
         foreground |-> Hundredths(rgbToHsl(s.darkForeground)),
         card |-> Hundredths(rgbToHsl(s.darkBackground)),
         cardForeground |-> Hundredths(rgbToHsl(s.darkForeground)),
         popover |-> Hundredths(rgbToHsl(s.darkBackground)),
         popoverForeground |-> Hundredths(rgbToHsl(s.darkForeground)),
         primary |-> darkPrimaryHsl,
         primaryForeground |-> HSL(10 * primaryHsl.h, 5000, 1000),
         secondary |-> HSL(10 * primaryHsl.h, Max(3 * primaryHsl.s, 1000), 1700),
         secondaryForeground |-> darkPrimaryHsl,
         muted |-> muteColor(rgbToHsl(s.darkBackground), FALSE),
         mutedForeground |-> HSL(10 * primaryHsl.h, 2000, 6500),
         accent |-> HSL(10 * s.accentHsl.h, 10 * s.accentHsl.s,
                        Min(10 * s.accentHsl.l + 1000, 8000)),
         accentForeground |-> darkPrimaryHsl,
         border |-> borderDarkHsl,
         input |-> borderDarkHsl,
         ring |-> HSL(10 * primaryHsl.h, 2700, 8400)]

\* The roles computed from the input; destructive and destructiveForeground
\* are string literals.
ComputedRoles ==
    {"background", "foreground", "card", "cardForeground", "popover",
     "popoverForeground", "primary", "primaryForeground", "secondary",
     "secondaryForeground", "muted", "mutedForeground", "accent",
     "accentForeground", "border", "input", "ring"}

Roles == ComputedRoles \cup {"destructive", "destructiveForeground"}

\* Mutant of themeColors: card takes the muted colour.
themeColorsCardMuted(hsls, destructive) ==
    [role \in Roles |->
        IF role = "destructive" THEN destructive
        ELSE IF role = "destructiveForeground" THEN "0 0% 98%"
        ELSE IF role = "card" THEN formatHslForShadcn(hsls["muted"])
        ELSE formatHslForShadcn(hsls[role])]

\* A ThemeColors record: every computed role formatted, plus the two literals.
themeColors(hsls, destructive) ==
    [role \in Roles |->
        IF role = "destructive" THEN destructive
        ELSE IF role = "destructiveForeground" THEN "0 0% 98%"
        ELSE formatHslForShadcn(hsls[role])]

\* Mutant of sortedColors: the filter is missing.
sortedColorsUnfiltered(colors) ==
    LET sorted == SortDescending(colors, [i \in 1..Len(colors) |-> colors[i].frequency])
    IN  SubSeq(sorted, 1, Min(Len(sorted), 12))

\* Mutant of sortedColors: the slice is missing.
sortedColorsUncapped(colors) ==
    LET kept == SelectSeq(colors, LAMBDA c :
                    c.hsl.s > 100 \/ (c.hsl.l > 50 /\ c.hsl.l < 950))
    IN  SortDescending(kept, [i \in 1..Len(kept) |-> kept[i].frequency])

\* Lines 361-365: colors.filter(...).sort(...).slice(0, 12).
sortedColors(colors) ==
    LET kept == SelectSeq(colors, LAMBDA c :
                    c.hsl.s > 100 \/ (c.hsl.l > 50 /\ c.hsl.l < 950))
        sorted == SortDescending(kept, [i \in 1..Len(kept) |-> kept[i].frequency])
    IN  SubSeq(sorted, 1, Min(Len(sorted), 12))

\* Lines 310-377: the ExtractedTheme built from the selection.
assembleTheme(colors, s) ==
    LET shown == sortedColors(colors)
    IN  [light |-> themeColors(lightHsl(s), "0 84.2% 60.2%"),
         dark |-> themeColors(darkHsl(s), "0 62.8% 30.6%"),
         sourceColors |-> [i \in 1..Len(shown) |-> shown[i].hex],
         colorDetails |-> [i \in 1..Len(shown) |->
                              [hex |-> shown[i].hex,
                               frequency |-> shown[i].frequency,
                               hue |-> RoundDiv(shown[i].hsl.h, 10)]]]

\* generateTheme as a function of its argument.
generateTheme(strs) ==
    LET colors == reduceColors(strs)
    IN  assembleTheme(colors, selectRoles(colors))

(***************************************************************************)
(* CSS serialization (src/src/lib/theme-generator.ts 380-414)              *)
(***************************************************************************)
\* Lines 383-401: the custom property and the ThemeColors field of each line of
\* the template, top to bottom.
themeVarLines ==
    <<<<"background", "background">>, <<"foreground", "foreground">>,
      <<"card", "card">>, <<"card-foreground", "cardForeground">>,
      <<"popover", "popover">>, <<"popover-foreground", "popoverForeground">>,
      <<"primary", "primary">>, <<"primary-foreground", "primaryForeground">>,
      <<"secondary", "secondary">>, <<"secondary-foreground", "secondaryForeground">>,
      <<"muted", "muted">>, <<"muted-foreground", "mutedForeground">>,
      <<"accent", "accent">>, <<"accent-foreground", "accentForeground">>,
      <<"destructive", "destructive">>,
      <<"destructive-foreground", "destructiveForeground">>,
      <<"border", "border">>, <<"input", "input">>, <<"ring", "ring">>>>

\* The lines of a template literal joined by its line breaks.
RECURSIVE JoinLines(_)
JoinLines(lines) ==
    IF Len(lines) = 0 THEN ""
    ELSE IF Len(lines) = 1 THEN lines[1]
    ELSE lines[1] \o "\n" \o JoinLines(Tail(lines))

\* Mutant of formatThemeVars: the card and popover lines change places.
formatThemeVarsSwapped(colors, prefix) ==
    LET indent == IF prefix # "" THEN "    " ELSE "  "
        at(k) == IF k = 3 THEN 5 ELSE IF k = 5 THEN 3 ELSE k
    IN  JoinLines([k \in 1..Len(themeVarLines) |->
            indent \o "--" \o themeVarLines[at(k)][1] \o ": "
            \o colors[themeVarLines[at(k)][2]] \o ";"])

\* Lines 381-402: formatThemeVars; the indent is two spaces without a prefix.
formatThemeVars(colors, prefix) ==
    LET indent == IF prefix # "" THEN "    " ELSE "  "
    IN  JoinLines([k \in 1..Len(themeVarLines) |->
            indent \o "--" \o themeVarLines[k][1] \o ": "
            \o colors[themeVarLines[k][2]] \o ";"])

\* Lines 404-413: the returned template literal.
generateCSSOutput(t) ==
    JoinLines(<<"@layer base {",
                "  :root {",
                formatThemeVars(t.light, ""),
                "    --radius: 0.5rem;",
                "  }",
                "",
                "  .dark {",
                formatThemeVars(t.dark, "  "),
                "  }",
                "}">>)

(***************************************************************************)
(* medianCutQuantize (src/unnamed/part_002 237-300)                        *)
(***************************************************************************)
Bucket(colors) == [colors |-> colors, count |-> Len(colors)]

\* buckets.sort((a, b) => b.count - a.count)
sortBuckets(bs) == SortDescending(bs, [i \in 1..Len(bs) |-> bs[i].count])

Channel(color, key) ==
    IF key = "r" THEN color.r ELSE IF key = "g" THEN color.g ELSE color.b

\* rMax - rMin and so on, the extremes starting from 255 and 0 as in the code.
ChannelRange(colors, key) ==
    LET vals == {Channel(colors[i], key) : i \in 1..Len(colors)}
        lo == CHOOSE v \in vals \cup {255} : \A w \in vals \cup {255} : v <= w
        hi == CHOOSE v \in vals \cup {0} : \A w \in vals \cup {0} : v >= w
    IN  hi - lo

\* The channel with the largest range, ties resolved r, g, b.
sortKeyOf(colors) ==
    LET rRange == ChannelRange(colors, "r")
        gRange == ChannelRange(colors, "g")
        bRange == ChannelRange(colors, "b")
    IN  IF rRange >= gRange /\ rRange >= bRange THEN "r"
        ELSE IF gRange >= rRange /\ gRange >= bRange THEN "g"
        ELSE "b"

\* bucket.colors.sort((a, b) => a[sortKey] - b[sortKey])
sortByChannel(colors, key) ==
    SortDescending(colors, [i \in 1..Len(colors) |-> -Channel(colors[i], key)])

\* Mutant of splitLargest: the largest bucket is left whole.
splitLargestUnsplit(sorted) == sorted

\* One pass of the while body on the sorted bucket array (lines 249-284).
splitLargest(sorted) ==
    LET bucket == sorted[1]
        ordered == sortByChannel(bucket.colors, sortKeyOf(bucket.colors))
        mid == Len(ordered) \div 2
        bucket1 == SubSeq(ordered, 1, mid)
        bucket2 == SubSeq(ordered, mid + 1, Len(ordered))
    IN  Append([sorted EXCEPT ![1] = Bucket(bucket1)], Bucket(bucket2))

\* Mutant of loopContinues: the comparison admits equality.
loopContinuesInclusive(bs, n) == Len(bs) <= n

\* Line 242: while (buckets.length < maxColors).
loopContinues(bs, n) == Len(bs) < n

\* Mutant of largestTooSmall: only an empty bucket stops the loop.
largestTooSmallEmptyOnly(sorted) == Len(sorted[1].colors) < 1

\* Line 247: if (bucket.colors.length < 2) break, on the sorted array.
largestTooSmall(sorted) == Len(sorted[1].colors) < 2

\* Lines 288-299: the rounded average colour of a bucket.
averageColor(bucket) ==
    LET n == Len(bucket.colors)
        count == Len(bucket.colors)
    IN  RGB(RoundDiv(Sum([i \in 1..n |-> bucket.colors[i].r]), count),
            RoundDiv(Sum([i \in 1..n |-> bucket.colors[i].g]), count),
            RoundDiv(Sum([i \in 1..n |-> bucket.colors[i].b]), count))

(***************************************************************************)
(* Inputs                                                                  *)
(***************************************************************************)
MaxLen == 3
MaxWide == 15
MaxPixels == 4
MaxTarget == 3
MaxEdge == 2
MaxPermuted == 3

\* One colour in every notation parseColor reads, and a second colour.
NotationPalette ==
    {"#ff0000", "#FF0000", "red", "#F00", "rgb(255,0,0)", " HSL(0, 100%, 50%) ", "#fff"}

\* Light, dark, saturated and gray colours, strings parseColor rejects, and
\* rgb()/hsl() strings whose components leave their nominal ranges.
Palette ==
    {"#ff0000", "#fff", "rgb(26, 115, 232)", "hsl(120, 100%, 25%)", "#202124",
     "black", "nope", "transparent", "rgb(300, 0, 0)", "hsla(0, 200%, 50%, 1)"}

\* Fourteen distinct saturated colours, for inputs longer than the display cap.
WidePalette ==
    <<"#ef4444", "#f97316", "#f59e0b", "#eab308", "#84cc16", "#22c55e", "#10b981",
      "#14b8a6", "#06b6d4", "#0ea5e9", "#3b82f6", "#6366f1", "#8b5cf6", "#ec4899">>

ShortInputs ==
    UNION {[1..n -> Palette] \cup [1..n -> NotationPalette] : n \in 0..MaxLen}

WideInputs ==
    {[i \in 1..n |-> WidePalette[((a + i) % Len(WidePalette)) + 1]] :
        n \in 1..MaxWide, a \in 0..(Len(WidePalette) - 1)}

\* A page whose brand colour is blue on white with near-black text.
ScenarioInput == <<"#1a73e8", "#1a73e8", "#ffffff", "#ffffff", "#ffffff", "#202124">>

\* Colours on and beside the limits of groupColorsByHue: hue 15.0 and 14.7,
\* hue 348.2, lightness 90.0 and 95.1, saturation 15.0 and 0; a colour of
\* saturation 25.0 and a light blue of lightness 90.0.
EdgePalette ==
    {"rgb(200, 50, 0)", "rgb(200, 49, 0)", "rgb(255, 0, 50)", "rgb(255, 204, 204)",
     "rgb(255, 230, 230)", "rgb(115, 85, 85)", "#808080", "rgb(125, 75, 75)",
     "rgb(204, 204, 255)"}

EdgeInputs == UNION {[1..n -> EdgePalette] : n \in 1..MaxEdge}

Inputs == ShortInputs \cup WideInputs \cup {ScenarioInput} \cup EdgeInputs

\* Inputs short enough for every rearrangement to be tried: one colour in
\* three notations, two more saturated colours, white and a rejected string.
PermutedPalette == {"#ff0000", "red", "#F00", "#fff", "#f97316", "#f59e0b", "nope"}

PermutedInputs == UNION {[1..n -> PermutedPalette] : n \in 0..MaxPermuted}

PixelPalette == {RGB(200, 30, 40), RGB(30, 180, 60), RGB(40, 60, 220), RGB(128, 128, 128)}

PixelInputs == UNION {[1..n -> PixelPalette] : n \in 0..MaxPixels}

(***************************************************************************)
(* generateTheme as a state machine                                        *)
(***************************************************************************)
Init ==
    /\ pc = "reduce"
    /\ colorStrings \in Inputs
    /\ idx = 0
    /\ colorMap = <<>>
    /\ sel = NULL
    /\ theme = NULL
    /\ css = ""
    /\ qpc = "idle"
    /\ pixels = <<>>
    /\ maxColors = 8
    /\ buckets = <<>>
    /\ quantized = <<>>
    /\ cpc = "idle" /\ cstr = "" /\ crgb = NULL /\ chsl = NULL /\ cback = NULL
    /\ UploadIdle

\* One iteration of `for (const colorStr of colorStrings)` (lines 226-244).
Reduce ==
    /\ pc = "reduce"
    /\ idx < Len(colorStrings)
    /\ colorMap' = reduceColor(colorMap, colorStrings[idx + 1])
    /\ idx' = idx + 1
    /\ UNCHANGED <<pc, colorStrings, sel, theme, css>>
    /\ UNCHANGED <<quantVars, convVars, uploadVars>>

\* Lines 246-291, after the loop: the key colours.
Select ==
    /\ pc = "reduce"
    /\ idx = Len(colorStrings)
    /\ sel' = selectRoles(colorMap)
    /\ colorMap' = colorsAfterSelection(colorMap)
    /\ pc' = "assemble"
    /\ UNCHANGED <<colorStrings, idx, theme, css>>
    /\ UNCHANGED <<quantVars, convVars, uploadVars>>

\* Lines 293-377: the two ThemeColors records and the displayed colours.
Assemble ==
    /\ pc = "assemble"
    /\ theme' = assembleTheme(colorMap, sel)
    /\ colorMap' = colorsAfterDisplaySort(colorMap)
    /\ pc' = "done"
    /\ UNCHANGED <<colorStrings, idx, sel, css>>
    /\ UNCHANGED <<quantVars, convVars, uploadVars>>

\* theme-output.tsx line 24: the theme is serialized for display.
Serialize ==
    /\ pc = "done"
    /\ css' = generateCSSOutput(theme)
    /\ pc' = "serialized"
    /\ UNCHANGED <<colorStrings, idx, colorMap, sel, theme>>
    /\ UNCHANGED <<quantVars, convVars, uploadVars>>

Next == Reduce \/ Select \/ Assemble \/ Serialize

Spec == Init /\ [][Next]_vars

\* generateTheme on the inputs whose rearrangements are compared.
InitPermuted ==
    /\ pc = "reduce"
    /\ colorStrings \in PermutedInputs
    /\ idx = 0
    /\ colorMap = <<>>
    /\ sel = NULL
    /\ theme = NULL
    /\ css = ""
    /\ qpc = "idle"
    /\ pixels = <<>>
    /\ maxColors = 8
    /\ buckets = <<>>
    /\ quantized = <<>>
    /\ cpc = "idle" /\ cstr = "" /\ crgb = NULL /\ chsl = NULL /\ cback = NULL
    /\ UploadIdle

SpecPermuted == InitPermuted /\ [][Next]_vars

(***************************************************************************)
(* medianCutQuantize as a state machine                                    *)
(***************************************************************************)
InitQuantize ==
    /\ pc = "idle"
    /\ colorStrings = <<>>
    /\ idx = 0
    /\ colorMap = <<>>
    /\ sel = NULL
    /\ theme = NULL
    /\ css = ""
    /\ qpc = "start"
    /\ pixels \in PixelInputs
    /\ maxColors \in 1..MaxTarget
    /\ buckets = <<>>
    /\ quantized = <<>>
    /\ cpc = "idle" /\ cstr = "" /\ crgb = NULL /\ chsl = NULL /\ cback = NULL
    /\ UploadIdle

\* Line 238: an empty pixel list returns [].
QuantizeEmpty ==
    /\ qpc = "start"
    /\ Len(pixels) = 0
    /\ quantized' = <<>>
    /\ qpc' = "done"
    /\ UNCHANGED <<pixels, maxColors, buckets>>
    /\ UNCHANGED <<themeVars, convVars, uploadVars>>

\* Line 240: one bucket holding every pixel.
QuantizeStart ==
    /\ qpc = "start"
    /\ Len(pixels) > 0
    /\ buckets' = <<Bucket(pixels)>>
    /\ qpc' = "loop"
    /\ UNCHANGED <<pixels, maxColors, quantized>>
    /\ UNCHANGED <<themeVars, convVars, uploadVars>>

\* Lines 242-285, an iteration that splits.  The first bucket's colors array is
\* the pixels argument itself, so its in-place sort reorders pixels.
QuantizeSplit ==
    /\ qpc = "loop"
    /\ loopContinues(buckets, maxColors)
    /\ ~largestTooSmall(sortBuckets(buckets))
    /\ buckets' = splitLargest(sortBuckets(buckets))
    /\ pixels' = IF Len(buckets) = 1
                 THEN sortByChannel(pixels, sortKeyOf(pixels)) ELSE pixels
    /\ UNCHANGED <<qpc, maxColors, quantized>>
    /\ UNCHANGED <<themeVars, convVars, uploadVars>>

\* Lines 242-247, an iteration that breaks: the buckets were sorted first.
QuantizeBreak ==
    /\ qpc = "loop"
    /\ loopContinues(buckets, maxColors)
    /\ largestTooSmall(sortBuckets(buckets))
    /\ buckets' = sortBuckets(buckets)
    /\ qpc' = "average"
    /\ UNCHANGED <<pixels, maxColors, quantized>>
    /\ UNCHANGED <<themeVars, convVars, uploadVars>>

\* Line 242: the loop condition fails.
QuantizeFull ==
    /\ qpc = "loop"
    /\ ~loopContinues(buckets, maxColors)
    /\ qpc' = "average"
    /\ UNCHANGED <<pixels, maxColors, buckets, quantized>>
    /\ UNCHANGED <<themeVars, convVars, uploadVars>>

\* Lines 287-299: the average colour of each bucket.
QuantizeAverage ==
    /\ qpc = "average"
    /\ quantized' = [i \in 1..Len(buckets) |-> averageColor(buckets[i])]
    /\ qpc' = "done"
    /\ UNCHANGED <<pixels, maxColors, buckets>>
    /\ UNCHANGED <<themeVars, convVars, uploadVars>>

NextQuantize ==
    \/ QuantizeEmpty
    \/ QuantizeStart
    \/ QuantizeSplit
    \/ QuantizeBreak
    \/ QuantizeFull
    \/ QuantizeAverage

SpecQuantize == InitQuantize /\ [][NextQuantize]_vars

\* The same function from its call onwards: before the call nothing is bound.
InitCall ==
    /\ pc = "idle"
    /\ colorStrings = <<>>
    /\ idx = 0
    /\ colorMap = <<>>
    /\ sel = NULL
    /\ theme = NULL
    /\ css = ""
    /\ qpc = "call"
    /\ pixels = <<>>
    /\ maxColors = 1
    /\ buckets = <<>>
    /\ quantized = <<>>
    /\ cpc = "idle" /\ cstr = "" /\ crgb = NULL /\ chsl = NULL /\ cback = NULL
    /\ UploadIdle

\* Line 237: the call binds pixels and maxColors.
QuantizeCall ==
    /\ qpc = "call"
    /\ pixels' \in PixelInputs
    /\ maxColors' \in 1..MaxTarget
    /\ qpc' = "start"
    /\ UNCHANGED <<buckets, quantized>>
    /\ UNCHANGED <<themeVars, convVars, uploadVars>>

NextCall ==
    \/ QuantizeCall
    \/ NextQuantize

\* The statements other than the splitting iteration.
QuantizeOther ==
    \/ QuantizeCall
    \/ QuantizeEmpty
    \/ QuantizeStart
    \/ QuantizeBreak
    \/ QuantizeFull
    \/ QuantizeAverage

\* ENABLED <<QuantizeSplit>>_vars: a split always lengthens buckets, so the
\* action is enabled exactly when its guard holds.
SplitEnabled ==
    /\ qpc = "loop"
    /\ loopContinues(buckets, maxColors)
    /\ ~largestTooSmall(sortBuckets(buckets))

\* medianCutQuantize is a synchronous function: once called it runs every
\* statement up to its return.  The last conjunct is WF_vars(QuantizeSplit)
\* with its ENABLED written out as SplitEnabled.
FairSpecQuantize ==
    /\ InitCall
    /\ [][NextCall]_vars
    /\ WF_vars(QuantizeOther)
    /\ ([]<>(~SplitEnabled) \/ []<><<QuantizeSplit>>_vars)

(***************************************************************************)
(* The colour primitives applied to single values                          *)
(***************************************************************************)
\* The names of the namedColors table.
ColourNames ==
    <<"white", "black", "red", "green", "blue", "yellow", "cyan", "magenta",
      "gray", "grey", "orange", "purple", "pink", "transparent">>

ToUpperChar(c) ==
    IF \E i \in 1..26 : LowerCase[i] = c
    THEN UpperCase[CHOOSE i \in 1..26 : LowerCase[i] = c]
    ELSE c

RECURSIVE toUpperCase(_)
toUpperCase(s) ==
    IF Len(s) = 0 THEN ""
    ELSE ToUpperChar(CharAt(s, 1)) \o toUpperCase(SubSeq(s, 2, Len(s)))

\* A name as written, in capitals, capitalised, and inside white space.
Spellings(name) ==
    {name, toUpperCase(name),
     ToUpperChar(CharAt(name, 1)) \o SubSeq(name, 2, Len(name)),
     "  " \o name \o " ", "\t" \o toUpperCase(name) \o "\n"}

NameInputs == UNION {Spellings(ColourNames[i]) : i \in 1..Len(ColourNames)}

\* Texts in none of the notations: wrong digit counts, digits that are not
\* hexadecimal, functional notations short of components, unknown words.
UnrecognisedInputs ==
    {"", " ", "nope", "#", "#12", "#1234", "#12345", "#1234567", "#gggggg", "#ggg",
     "redd", "dark red", "re d", "rgb(1, 2)", "rgb(a, b, c)", "rgb()", "hsl(120)",
     "hsl(120, 50%)", "12, 34, 56", "currentcolor", "inherit"}

\* Functional and hex notations, in and out of the nominal component ranges.
NotationInputs ==
    {"#1a73e8", "#FFF", "rgb(26, 115, 232)", "rgba(0, 0, 0, 0.5)", "rgb(300, 0, 0)",
     "hsl(0, 100%, 50%)", "hsl(214.1, 81.7%, 50.6%)", "hsla(120, 100%, 25%, 1)",
     "HSL(359.9, 0%, 100%)", "hsl(360, 100%, 100%)", "hsla(0, 200%, 50%, 1)",
     "hsl(400, 50%, 50%)", "hsl(0, 100%, 150%)", "hsl(720, 100, 50)"}

TextInputs == NameInputs \cup UnrecognisedInputs \cup NotationInputs

\* Every value of the red channel against a sample of the other two.
ChannelSamples == {0, 1, 26, 64, 115, 127, 128, 232, 255}
RgbInputs == {RGB(r, g, b) : r \in 0..255, g \in ChannelSamples, b \in ChannelSamples}

\* HSL records within the ranges of the HSL type, in tenths.
HslInputs ==
    {HSL(h, s, l) : h \in {0, 150, 599, 600, 1200, 1800, 2400, 3000, 3450, 3599, 3600},
                    s \in {0, 1, 500, 1000},
                    l \in {0, 1, 250, 499, 500, 750, 1000}}

InitConvert ==
    /\ pc = "idle"
    /\ colorStrings = <<>>
    /\ idx = 0
    /\ colorMap = <<>>
    /\ sel = NULL
    /\ theme = NULL
    /\ css = ""
    /\ qpc = "idle"
    /\ pixels = <<>>
    /\ maxColors = 8
    /\ buckets = <<>>
    /\ quantized = <<>>
    /\ UploadIdle
    /\ cback = NULL
    /\ \/ cpc = "text" /\ cstr \in TextInputs /\ crgb = NULL /\ chsl = NULL
       \/ cpc = "rgb" /\ cstr = "" /\ crgb \in RgbInputs /\ chsl = NULL
       \/ cpc = "hsl" /\ cstr = "" /\ crgb = NULL /\ chsl \in HslInputs

\* parseColor(cstr); chsl records what its hsl branch handed to hslToRgb.
ParseColor ==
    /\ cpc = "text"
    /\ crgb' = parseColor(cstr)
    /\ chsl' = hslArgument(cstr)
    /\ cpc' = "parsed"
    /\ UNCHANGED <<cstr, cback>>
    /\ UNCHANGED <<themeVars, quantVars, uploadVars>>

\* rgbToHsl(crgb).
RgbToHsl ==
    /\ cpc = "rgb"
    /\ chsl' = rgbToHsl(crgb)
    /\ cpc' = "hsl"
    /\ UNCHANGED <<cstr, crgb, cback>>
    /\ UNCHANGED <<themeVars, quantVars, uploadVars>>

\* hslToRgb(chsl).
HslToRgb ==
    /\ cpc = "hsl"
    /\ cback' = hslToRgb(chsl)
    /\ cpc' = "back"
    /\ UNCHANGED <<cstr, crgb, chsl>>
    /\ UNCHANGED <<themeVars, quantVars, uploadVars>>

NextConvert == ParseColor \/ RgbToHsl \/ HslToRgb

SpecConvert == InitConvert /\ [][NextConvert]_vars

(***************************************************************************)
(* The screenshot upload (screenshot-upload.tsx 21-71, part_003 71-80)     *)
(***************************************************************************)
\* Line 42: const maxSize = 400.
maxSize == 400

\* Image sizes below, at and above maxSize.
Dimensions == {200, 400, 800}

\* What extractColorsFromImageData returns for an image: nothing (every
\* sampled pixel transparent, near black or near white), one colour, two.
ExtractedColors ==
    {<<>>, <<RGB(26, 115, 232)>>, <<RGB(200, 30, 40), RGB(30, 180, 60)>>}

\* A file the browser cannot decode as an image.
UndecodableFile == [decodes |-> FALSE, width |-> 0, height |-> 0, colors |-> <<>>]

\* The files a user can hand over: images of each size and content, and the
\* undecodable one.
Files ==
    [decodes : {TRUE}, width : Dimensions, height : Dimensions, colors : ExtractedColors]
        \cup {UndecodableFile}

\* Lines 41-58: the canvas size, large images scaled down to maxSize.
canvasSize(img) ==
    IF img.width > maxSize \/ img.height > maxSize
    THEN IF img.width > img.height
         THEN [width |-> maxSize, height |-> (img.height * maxSize) \div img.width]
         ELSE [width |-> (img.width * maxSize) \div img.height, height |-> maxSize]
    ELSE [width |-> img.width, height |-> img.height]

\* generateThemeFromRGB 417-422: the colours as hex strings.
rgbColorStrings(colors) == [i \in 1..Len(colors) |-> toHex(colors[i])]

InitUpload ==
    /\ pc = "idle"
    /\ colorStrings = <<>>
    /\ idx = 0
    /\ colorMap = <<>>
    /\ sel = NULL
    /\ theme = NULL
    /\ css = ""
    /\ qpc = "idle"
    /\ pixels = <<>>
    /\ maxColors = 8
    /\ buckets = <<>>
    /\ quantized = <<>>
    /\ cpc = "idle" /\ cstr = "" /\ crgb = NULL /\ chsl = NULL /\ cback = NULL
    /\ UploadIdle

\* Lines 21-70, processImage up to its return: the flag is raised, a
\* FileReader and an Image are started.  The drop zone ignores pointer events
\* and the file input is disabled while isLoading holds.
ProcessImage ==
    /\ ~isLoading
    /\ \E f \in Files :
           /\ file' = f
           /\ reader' = f
    /\ isLoading' = TRUE
    /\ upc' = "pending"
    /\ UNCHANGED <<preview, canvas, appError, appTheme>>
    /\ UNCHANGED <<themeVars, quantVars, convVars>>

\* Lines 27-29: reader.onload shows the preview.
ReaderOnload ==
    /\ reader # NULL
    /\ preview' = reader
    /\ reader' = NULL
    /\ UNCHANGED <<upc, isLoading, file, canvas, appError, appTheme>>
    /\ UNCHANGED <<themeVars, quantVars, convVars>>

\* Lines 103-105: clearPreview; its button is disabled while isLoading holds.
ClearPreview ==
    /\ preview # NULL
    /\ ~isLoading
    /\ preview' = NULL
    /\ UNCHANGED <<upc, isLoading, file, reader, canvas, appError, appTheme>>
    /\ UNCHANGED <<themeVars, quantVars, convVars>>

\* Lines 34-40: img.onload when getContext('2d') returns null.
ImageOnloadNoContext ==
    /\ upc = "pending"
    /\ file.decodes
    /\ isLoading' = FALSE
    /\ upc' = "idle"
    /\ UNCHANGED <<file, reader, preview, canvas, appError, appTheme>>
    /\ UNCHANGED <<themeVars, quantVars, convVars>>

\* Lines 34-66: img.onload with a context: the image is drawn, its colours are
\* handed to handleImageColorsExtracted (part_003 71-80), the flag is lowered.
ImageOnloadExtract ==
    /\ upc = "pending"
    /\ file.decodes
    /\ canvas' = canvasSize(file)
    /\ IF Len(file.colors) = 0
       THEN /\ appError' = [message |-> "No colors could be extracted from the image"]
            /\ UNCHANGED appTheme
       ELSE /\ appTheme' = [colorStrings |-> rgbColorStrings(file.colors)]
            /\ appError' = NULL
    /\ isLoading' = FALSE
    /\ upc' = "idle"
    /\ UNCHANGED <<file, reader, preview>>
    /\ UNCHANGED <<themeVars, quantVars, convVars>>

\* The image fails to load: the browser fires the error event, for which
\* processImage registers no listener (only onload is set, line 34).
ImageLoadError ==
    /\ upc = "pending"
    /\ ~file.decodes
    /\ upc' = "failed"
    /\ UNCHANGED <<isLoading, file, reader, preview, canvas, appError, appTheme>>
    /\ UNCHANGED <<themeVars, quantVars, convVars>>

NextUpload ==
    \/ ProcessImage
    \/ ReaderOnload
    \/ ClearPreview
    \/ ImageOnloadNoContext
    \/ ImageOnloadExtract
    \/ ImageLoadError

SpecUpload == InitUpload /\ [][NextUpload]_vars

\* The browser delivers every event it has queued: the reader's load, the
\* image's load or error.  Nothing obliges the user to upload or to clear.
FairSpecUpload ==
    /\ SpecUpload
    /\ WF_vars(ReaderOnload)
    /\ WF_vars(ImageOnloadNoContext \/ ImageOnloadExtract)
    /\ WF_vars(ImageLoadError)

(***************************************************************************)
(* Properties                                                              *)
(***************************************************************************)
Done == pc = "done"

Range(seq) == {seq[i] : i \in 1..Len(seq)}

\* parseColor tabulated over the strings of the inputs.
AllStrings ==
    Palette \cup NotationPalette \cup Range(WidePalette) \cup Range(ScenarioInput)
    \cup EdgePalette \cup PermutedPalette
Parsed == [str \in AllStrings |-> parseColor(str)]

\* The hex a colour string normalises to, "" when parseColor rejects it.
HexOf(str) == IF Parsed[str] = NULL THEN "" ELSE toHex(Parsed[str])

\* The arrangements of a sequence.
Rearrangements(seq) ==
    {[i \in 1..Len(seq) |-> seq[p[i]]] : p \in Permutations(1..Len(seq))}

\* The distinct hexes of an input in the order in which they first occur.
FirstOccurrences(strs) ==
    LET hexes == [i \in 1..Len(strs) |-> HexOf(strs[i])]
        firsts == SelectSeq([i \in 1..Len(strs) |-> i], LAMBDA i :
                      hexes[i] # "" /\ \A j \in 1..(i - 1) : hexes[j] # hexes[i])
    IN  [k \in 1..Len(firsts) |-> hexes[firsts[k]]]

\* The reduced colours as a set of <<hex, frequency>> pairs.
Frequencies(colors) == {<<colors[i].hex, colors[i].frequency>> : i \in 1..Len(colors)}

C2_EmptyInputTheme ==
    (Done /\ \A i \in 1..Len(colorStrings) : Parsed[colorStrings[i]] = NULL) =>
        /\ DOMAIN theme.light = Roles /\ DOMAIN theme.dark = Roles
        /\ Cardinality(Roles) = 19
        /\ \A role \in Roles : Len(theme.light[role]) > 0 /\ Len(theme.dark[role]) > 0
        /\ theme.light.background = "0 0% 100%"
        /\ theme.dark.background = "240 10% 3.9%"
        /\ theme.dark.background = formatHslForShadcn(Hundredths(rgbToHsl(RGB(9, 9, 11))))
        /\ theme.sourceColors = <<>> /\ theme.colorDetails = <<>>
        /\ theme = generateTheme(<<>>)

\* A non-empty input in which every string is unparseable.
C2_Witness ==
    /\ Done
    /\ Len(colorStrings) = 2
    /\ colorStrings[1] # colorStrings[2]
    /\ \A i \in 1..Len(colorStrings) : Parsed[colorStrings[i]] = NULL

\* C3: in both records card and popover equal background, cardForeground and
\* popoverForeground equal foreground.
C3_SurfacesShareBackground ==
    Done =>
        \A t \in {theme.light, theme.dark} :
            /\ t.card = t.background
            /\ t.popover = t.background
            /\ t.cardForeground = t.foreground
            /\ t.popoverForeground = t.foreground

\* A theme whose backgrounds and foregrounds all come from the input.
C3_Witness ==
    /\ Done
    /\ sel.lightFound # NULL /\ sel.darkFound # NULL
    /\ theme.light.card # theme.dark.card
    /\ theme.light.card # theme.light.cardForeground

\* C4: a foreground selected from the input (not the fallback constant) has the
\* opposite isLight classification to its mode's background.
C4_ForegroundContrastDirection ==
    (pc \in {"assemble", "done"}) =>
        /\ sel.lightFound # NULL =>
               /\ sel.lightForeground = sel.lightFound.color
               /\ isLightColor(sel.lightForeground) # isLightColor(sel.lightBackground)
        /\ sel.darkFound # NULL =>
               /\ sel.darkForeground = sel.darkFound.color
               /\ isLightColor(sel.darkForeground) # isLightColor(sel.darkBackground)

\* Both foregrounds are selected from the input.
C4_Witness ==
    /\ Done
    /\ sel.lightFound # NULL /\ sel.darkFound # NULL
    /\ Len(colorMap) >= 3

\* C5: the strings consumed so far that normalise to one hex are one
\* WeightedColor whose frequency is their number; ["#ff0000", "#FF0000", "red"]
\* reduces to the single colour #ff0000 with frequency 3.
C5_FrequencyAccumulation ==
    (pc \in {"reduce", "assemble", "done"}) =>
        /\ \A i, j \in 1..Len(colorMap) : colorMap[i].hex = colorMap[j].hex => i = j
        /\ \A k \in 1..idx :
               HexOf(colorStrings[k]) # "" =>
                   \E i \in 1..Len(colorMap) : colorMap[i].hex = HexOf(colorStrings[k])
        /\ \A i \in 1..Len(colorMap) :
               colorMap[i].frequency =
                   Cardinality({k \in 1..idx : HexOf(colorStrings[k]) = colorMap[i].hex})
        /\ (Done /\ colorStrings = <<"#ff0000", "#FF0000", "red">>) =>
               /\ Len(colorMap) = 1
               /\ colorMap[1].hex = "#ff0000"
               /\ colorMap[1].frequency = 3

\* Three notations of one colour have been reduced.
C5_Witness ==
    /\ Done
    /\ colorStrings = <<"#F00", " HSL(0, 100%, 50%) ", "rgb(255,0,0)">>
    /\ Len(colorMap) = 1
    /\ colorMap[1].frequency = 3

\* C6: the theme is the one generateTheme returns for the input with every
\* string that parseColor rejects removed.
C6_UnparseableSkipped ==
    Done =>
        theme = generateTheme(SelectSeq(colorStrings, LAMBDA str : Parsed[str] # NULL))

\* An input that mixes a rejected string with accepted ones.
C6_Witness ==
    /\ Done
    /\ Len(colorStrings) = 3
    /\ Parsed[colorStrings[2]] = NULL
    /\ Parsed[colorStrings[1]] # NULL
    /\ Parsed[colorStrings[3]] # NULL

\* A colour that is low-saturation (<= 10) and near-black or near-white
\* (lightness <= 5 or >= 95).
StructuralGray(c) == c.hsl.s <= 100 /\ (c.hsl.l <= 50 \/ c.hsl.l >= 950)

\* C7: sourceColors and colorDetails hold at most 12 entries, list the same
\* colours in the same order by non-increasing frequency, hold no structural
\* gray, and leave out another colour only when 12 colours of at least its
\* frequency are listed.
C7_DisplayedColors ==
    Done =>
        LET src == theme.sourceColors
            det == theme.colorDetails
            eligible == {i \in 1..Len(colorMap) : ~StructuralGray(colorMap[i])}
        IN  /\ Len(src) <= 12
            /\ Len(det) = Len(src)
            /\ \A i \in 1..Len(src) : det[i].hex = src[i]
            /\ \A i, j \in 1..Len(det) : i < j => det[i].frequency >= det[j].frequency
            /\ \A i, j \in 1..Len(src) : src[i] = src[j] => i = j
            /\ \A i \in 1..Len(src) :
                   \E k \in eligible :
                       /\ colorMap[k].hex = src[i]
                       /\ colorMap[k].frequency = det[i].frequency
            /\ Len(src) = Min(Cardinality(eligible), 12)
            /\ \A k \in eligible :
                   colorMap[k].hex \notin Range(src) =>
                       /\ Len(src) = 12
                       /\ colorMap[k].frequency <= det[12].frequency

\* More than 12 eligible colours with different frequencies: the cap cuts.
C7_Witness ==
    /\ Done
    /\ Len(colorMap) > 12
    /\ Len(theme.sourceColors) = 12
    /\ theme.colorDetails[1].frequency > theme.colorDetails[12].frequency

\* '#' followed by exactly six lowercase hex digits.
ValidHex(hex) ==
    /\ Len(hex) = 7
    /\ CharAt(hex, 1) = "#"
    /\ \A i \in 2..7 : IsHexDigit(CharAt(hex, i))

\* C8: every WeightedColor has a hex of the form #rrggbb (lowercase) and a
\* frequency >= 1, also for rgb()/hsl() strings with out-of-range components.
C8_ValidHexAndFrequency ==
    \A i \in 1..Len(colorMap) :
        ValidHex(colorMap[i].hex) /\ colorMap[i].frequency >= 1

\* An HSL record in hundredths within hue [0,360), saturation and lightness [0,100].
HslInRange(hsl) ==
    /\ hsl.h >= 0 /\ hsl.h < 36000
    /\ hsl.s >= 0 /\ hsl.s <= 10000
    /\ hsl.l >= 0 /\ hsl.l <= 10000

\* C9: every computed role value of the light and dark records has hue in
\* [0,360) and saturation and lightness in [0,100].
C9_RolesInRange ==
    Done =>
        \A role \in ComputedRoles :
            /\ HslInRange(lightHsl(sel)[role])
            /\ HslInRange(darkHsl(sel)[role])
            /\ theme.light[role] = formatHslForShadcn(lightHsl(sel)[role])
            /\ theme.dark[role] = formatHslForShadcn(darkHsl(sel)[role])

Serialized == pc = "serialized"

\* The elements of a set of integers in increasing order.
RECURSIVE Ascending(_)
Ascending(S) ==
    IF S = {} THEN <<>>
    ELSE LET least == CHOOSE x \in S : \A y \in S : x <= y
         IN  <<least>> \o Ascending(S \ {least})

\* A text cut at its line breaks.
SplitLines(text) ==
    LET breaks == Ascending({i \in 1..Len(text) : CharAt(text, i) = "\n"})
        from(k) == IF k = 1 THEN 1 ELSE breaks[k - 1] + 1
        to(k) == IF k = Len(breaks) + 1 THEN Len(text) ELSE breaks[k] - 1
    IN  [k \in 1..(Len(breaks) + 1) |-> SubSeq(text, from(k), to(k))]

\* The custom properties in the order the serialization fixes.
CssProperties ==
    <<"background", "foreground", "card", "card-foreground", "popover",
      "popover-foreground", "primary", "primary-foreground", "secondary",
      "secondary-foreground", "muted", "muted-foreground", "accent",
      "accent-foreground", "destructive", "destructive-foreground", "border",
      "input", "ring">>

\* The role a custom property carries: x-foreground carries xForeground.
RoleOfProperty(name) ==
    IF Len(name) > 11 /\ SubSeq(name, Len(name) - 10, Len(name)) = "-foreground"
    THEN SubSeq(name, 1, Len(name) - 11) \o "Foreground"
    ELSE name

\* The 19 declarations expected of one record of the theme.
Declarations(colors) ==
    [k \in 1..Len(CssProperties) |->
        "--" \o CssProperties[k] \o ": " \o colors[RoleOfProperty(CssProperties[k])] \o ";"]

\* The lines between the opening line at index open and the next closing brace.
BlockAt(lines, open) ==
    LET close == CHOOSE c \in (open + 1)..Len(lines) :
                     /\ lines[c] = "}"
                     /\ \A j \in (open + 1)..(c - 1) : lines[j] # "}"
    IN  SubSeq(lines, open + 1, close - 1)

\* C11: the serialization is one '@layer base' block holding exactly one
\* ':root' block and one '.dark' block; each block holds the 19 declarations
\* '--name: value;' in the fixed order with the values of theme.light (root)
\* and theme.dark (.dark), and '--radius: 0.5rem;' follows them in the root
\* block only.
C11_CssShape ==
    Serialized =>
        LET raw == SplitLines(css)
            lines == [i \in 1..Len(raw) |-> TrimStart(raw[i])]
            roots == {i \in 1..Len(lines) : lines[i] = ":root {"}
            darks == {i \in 1..Len(lines) : lines[i] = ".dark {"}
        IN  /\ raw[1] = "@layer base {"
            /\ raw[Len(raw)] = "}"
            /\ Cardinality(roots) = 1 /\ Cardinality(darks) = 1
            /\ Len(Declarations(theme.light)) = 19
            /\ BlockAt(lines, CHOOSE i \in roots : TRUE)
                   = Declarations(theme.light) \o <<"--radius: 0.5rem;">>
            /\ BlockAt(lines, CHOOSE i \in darks : TRUE) = Declarations(theme.dark)

\* A serialized theme extracted from colours: its two records differ in
\* foreground and in primary.
C11_Witness ==
    /\ Serialized
    /\ Len(colorMap) >= 2
    /\ theme.light.foreground # theme.dark.foreground
    /\ theme.light.primary # theme.dark.primary

(***************************************************************************)
(* End-to-end scenario                                                     *)
(***************************************************************************)
\* C12: for ["#1a73e8", "#1a73e8", "#ffffff", "#ffffff", "#ffffff", "#202124"]
\* the primary is #1a73e8, taken from hue bucket 210; light.background is the
\* HSL of #ffffff, dark.background the HSL of #202124, and sourceColors is
\* exactly [#1a73e8, #202124].
C12_EndToEndScenario ==
    (Done /\ colorStrings = ScenarioInput) =>
        /\ sel.primaryCandidate # NULL
        /\ sel.primaryCandidate.hex = "#1a73e8"
        /\ sel.primary = RGB(26, 115, 232)
        /\ hueBucket(sel.primaryCandidate) = 210
        /\ theme.light.primary
               = formatHslForShadcn(Hundredths(rgbToHsl(RGB(26, 115, 232))))
        /\ theme.light.background
               = formatHslForShadcn(Hundredths(rgbToHsl(RGB(255, 255, 255))))
        /\ theme.dark.background
               = formatHslForShadcn(Hundredths(rgbToHsl(RGB(32, 33, 36))))
        /\ theme.sourceColors = <<"#1a73e8", "#202124">>

\* The scenario has been run to its theme: three colours with frequencies
\* 2, 3 and 1.
C12_Witness ==
    /\ Done
    /\ colorStrings = ScenarioInput
    /\ [i \in 1..Len(colorMap) |-> colorMap[i].frequency] = <<2, 3, 1>>

(***************************************************************************)
(* Colour primitives                                                       *)
(***************************************************************************)
\* C13: parseColor returns an RGB value for each of the 14 names of the
\* named-colour table, whatever the letter case and the surrounding white
\* space, and returns none for a text that is in none of the notations.
C13_NamedColoursParse ==
    cpc = "parsed" =>
        /\ cstr \in NameInputs => crgb # NULL
        /\ cstr \in UnrecognisedInputs => crgb = NULL

\* C14: hslToRgb returns integer channels within [0,255] for every HSL value
\* it is given, the values parseColor hands to it from hsl()/hsla() strings
\* included.
ChannelsInRange(rgb) == rgb.r \in 0..255 /\ rgb.g \in 0..255 /\ rgb.b \in 0..255

C14_HslToRgbInRange ==
    /\ cpc = "back" => ChannelsInRange(cback)
    /\ (cpc = "parsed" /\ chsl # NULL) => ChannelsInRange(crgb)

\* C15: for an RGB value with integer channels in [0,255],
\* hslToRgb(rgbToHsl(rgb)) differs from rgb by at most 1 in each channel.
C15_RoundTrip ==
    (cpc = "back" /\ crgb # NULL /\ ChannelsInRange(crgb)) =>
        /\ Abs(cback.r - crgb.r) <= 1
        /\ Abs(cback.g - crgb.g) <= 1
        /\ Abs(cback.b - crgb.b) <= 1

\* A colour with three different channels, neither gray nor primary, has
\* been taken through rgbToHsl and back.
C15_Witness ==
    /\ cpc = "back"
    /\ crgb = RGB(26, 115, 232)
    /\ chsl = HSL(2141, 817, 506)
    /\ cback = crgb

(***************************************************************************)
(* Role selection                                                          *)
(***************************************************************************)
\* The key colours have just been selected from the reduced colours.
Selected == pc = "assemble"

Colors == {colorMap[i].color : i \in 1..Len(colorMap)}

\* C16: for a non-empty colour set the light-mode background is a colour of
\* maximum relative luminance in the set and the dark-mode background one of
\* minimum relative luminance; white and RGB(9,9,11) are used only when the
\* set is empty.
C16_BackgroundsByLuminance ==
    Selected =>
        IF Colors = {}
        THEN /\ sel.lightBackground = RGB(255, 255, 255)
             /\ sel.darkBackground = RGB(9, 9, 11)
        ELSE /\ sel.lightBackground \in Colors
             /\ \A c \in Colors : getLuminance(c) <= getLuminance(sel.lightBackground)
             /\ sel.darkBackground \in Colors
             /\ \A c \in Colors : getLuminance(c) >= getLuminance(sel.darkBackground)

\* Three colours of different luminance, neither extreme first in the input.
C16_Witness ==
    /\ Selected
    /\ Len(colorMap) = 3
    /\ sel.lightBackground # colorMap[1].color
    /\ sel.darkBackground # colorMap[1].color
    /\ getLuminance(sel.lightBackground) > getLuminance(colorMap[1].color)
    /\ getLuminance(sel.darkBackground) < getLuminance(colorMap[1].color)

\* The colours on the other side of the isLightColor threshold from a background.
Contrasting(background) ==
    {c \in Colors : isLightColor(c) # isLightColor(background)}

Farthest(background, foreground, fallback) ==
    IF Contrasting(background) = {} THEN foreground = fallback
    ELSE /\ foreground \in Contrasting(background)
         /\ \A c \in Contrasting(background) :
                colorDistance(c, background) <= colorDistance(foreground, background)

\* C17: in each mode the foreground is, among the colours of the full set
\* whose isLight differs from the background's, one with maximum Euclidean
\* RGB distance from the background; when there is none it is RGB(9,9,11)
\* in light mode and white in dark mode.
C17_ForegroundFarthest ==
    Selected =>
        /\ Farthest(sel.lightBackground, sel.lightForeground, RGB(9, 9, 11))
        /\ Farthest(sel.darkBackground, sel.darkForeground, RGB(255, 255, 255))

\* Two dark colours at different distances from a light background, the
\* nearer one first in the input.
C17_Witness ==
    /\ Selected
    /\ Cardinality(Contrasting(sel.lightBackground)) >= 2
    /\ colorMap[1].color \in Contrasting(sel.lightBackground)
    /\ colorDistance(colorMap[1].color, sel.lightBackground)
           < colorDistance(sel.lightForeground, sel.lightBackground)

(***************************************************************************)
(* Primary colour                                                          *)
(***************************************************************************)
\* The non-empty hue buckets of the reduced colours, and the one the primary
\* was taken from.
HueGroups == groupColorsByHue(colorMap)

ChosenGroup ==
    HueGroups[CHOOSE k \in 1..Len(HueGroups) :
                  HueGroups[k].hue = hueBucket(sel.primaryCandidate)]

TotalFrequency(group) ==
    Sum([i \in 1..Len(group.colors) |-> group.colors[i].frequency])

\* Sums over a bucket, in tenths; an average is the sum over the size.
SaturationSum(group) == Sum([i \in 1..Len(group.colors) |-> group.colors[i].hsl.s])
HueSum(group) == Sum([i \in 1..Len(group.colors) |-> group.colors[i].hsl.h])

\* (totalFrequency x 0.7 + averageSaturation x 0.3) x penalty, times 1000,
\* as a fraction over the size of the bucket.
Score(group, penalised) ==
    [num |-> (70 * TotalFrequency(group) * Len(group.colors) + 3 * SaturationSum(group))
             * (IF penalised THEN 3 ELSE 10),
     den |-> Len(group.colors)]

Exceeds(a, b) == a.num * b.den > b.num * a.den

Saturated(group) == SaturationSum(group) > 700 * Len(group.colors)

\* The penalty as stated: decided by the average hue of the bucket's colours.
PenalisedByAverageHue(group) ==
    /\ \/ HueSum(group) <= 300 * Len(group.colors)
       \/ HueSum(group) >= 3300 * Len(group.colors)
    /\ Saturated(group)

\* The penalty as computed: decided by the hue the bucket is named after.
PenalisedByBucketHue(group) ==
    /\ group.hue \in {0, 30, 330}
    /\ Saturated(group)

\* C18 (as stated): each non-empty hue bucket is scored (totalFrequency x 0.7
\* + averageSaturation x 0.3) x penalty, penalty being 0.3 if the bucket's
\* average hue lies in [0,30] or [330,360] and its average saturation exceeds
\* 70, and 1 otherwise; the bucket with the highest score is chosen.
C18_ScoreByAverageHue ==
    (Selected /\ Len(HueGroups) > 0) =>
        \A k \in 1..Len(HueGroups) :
            ~Exceeds(Score(HueGroups[k], PenalisedByAverageHue(HueGroups[k])),
                     Score(ChosenGroup, PenalisedByAverageHue(ChosenGroup)))

\* C18 (amended): the penalty is 0.3 if the bucket is 0, 30 or 330 (the
\* bucket's own hue lies in [0,30] or [330,360]) and its average saturation
\* exceeds 70, and 1 otherwise; the bucket with the highest score is chosen.
C18_ScoreByBucketHue ==
    (Selected /\ Len(HueGroups) > 0) =>
        \A k \in 1..Len(HueGroups) :
            ~Exceeds(Score(HueGroups[k], PenalisedByBucketHue(HueGroups[k])),
                     Score(ChosenGroup, PenalisedByBucketHue(ChosenGroup)))

\* A penalised bucket whose average hue lies outside [0,30] and [330,360]
\* has lost to a bucket it would have beaten without the penalty.
C18_Witness ==
    /\ Selected
    /\ Len(HueGroups) >= 2
    /\ \E k \in 1..Len(HueGroups) :
           /\ PenalisedByBucketHue(HueGroups[k])
           /\ ~PenalisedByAverageHue(HueGroups[k])
           /\ HueGroups[k] # ChosenGroup
           /\ Exceeds(Score(HueGroups[k], FALSE), Score(ChosenGroup, FALSE))

\* C19: within the highest-scoring hue bucket, the primary is a colour that
\* maximises frequency x 2 + saturation over the colours of that bucket.
C19_PrimaryWithinBucket ==
    (Selected /\ Len(HueGroups) > 0) =>
        /\ \A k \in 1..Len(HueGroups) :
               ~Exceeds(Score(HueGroups[k], PenalisedByBucketHue(HueGroups[k])),
                        Score(ChosenGroup, PenalisedByBucketHue(ChosenGroup)))
        /\ \E i \in 1..Len(ChosenGroup.colors) :
               sel.primaryCandidate = ChosenGroup.colors[i]
        /\ \A i \in 1..Len(ChosenGroup.colors) :
               ChosenGroup.colors[i].frequency * 20 + ChosenGroup.colors[i].hsl.s
                   <= sel.primaryCandidate.frequency * 20 + sel.primaryCandidate.hsl.s

\* The chosen bucket holds two colours and the primary is not the one that
\* entered it first.
C19_Witness ==
    /\ Selected
    /\ Len(HueGroups) > 0
    /\ Len(ChosenGroup.colors) >= 2
    /\ sel.primaryCandidate # ChosenGroup.colors[1]
    /\ ChosenGroup.colors[1].frequency * 20 + ChosenGroup.colors[1].hsl.s
           < sel.primaryCandidate.frequency * 20 + sel.primaryCandidate.hsl.s

(***************************************************************************)
(* Hue buckets                                                             *)
(***************************************************************************)
\* hue / 30 rounded half up, times 30, wrapped at 360; the hue is in tenths.
HalfUpBucket(hsl) == (((hsl.h + 150) \div 300) * 30) % 360

Bucketable(hsl) == hsl.s >= 150 /\ hsl.l >= 150 /\ hsl.l <= 900

BucketsOf(color) ==
    {k \in 1..Len(HueGroups) :
        \E i \in 1..Len(HueGroups[k].colors) : HueGroups[k].colors[i] = color}

\* C20: groupColorsByHue assigns every colour with saturation >= 15 and
\* lightness in [15,90] to exactly one of the 12 buckets 0,30,...,330, by
\* rounding hue/30 half up (hue 15 goes to bucket 30, hue >= 345 wraps to
\* bucket 0), and assigns no bucket to a colour with saturation < 15,
\* lightness < 15 or lightness > 90.
C20_HueBuckets ==
    Selected =>
        \A i \in 1..Len(colorMap) :
            IF Bucketable(colorMap[i].hsl)
            THEN /\ Cardinality(BucketsOf(colorMap[i])) = 1
                 /\ \A k \in BucketsOf(colorMap[i]) :
                        /\ HueGroups[k].hue = HalfUpBucket(colorMap[i].hsl)
                        /\ HueGroups[k].hue \in {30 * b : b \in 0..11}
            ELSE BucketsOf(colorMap[i]) = {}

\* A colour of hue exactly 15 sits in bucket 30 and one of hue 348.2 in
\* bucket 0.
C20_Witness ==
    /\ Selected
    /\ Len(colorMap) = 2
    /\ colorMap[1].hsl.h = 150 /\ BucketsOf(colorMap[1]) # {}
    /\ colorMap[2].hsl.h >= 3450 /\ BucketsOf(colorMap[2]) # {}
    /\ HueGroups[1].hue = 30 /\ HueGroups[2].hue = 0

(***************************************************************************)
(* Derived roles, read back from the theme                                 *)
(***************************************************************************)
\* A decimal numeral with at most two fractional digits, in hundredths.
Decimal(text) ==
    LET negative == CharAt(text, 1) = "-"
        digits == IF negative THEN SubSeq(text, 2, Len(text)) ELSE text
        point == DigitsEnd(digits, 1)
        whole == parseInt(SubSeq(digits, 1, point - 1))
        fraction == SubSeq(digits, point + 1, Len(digits))
        part == IF Len(fraction) = 0 THEN 0
                ELSE IF Len(fraction) = 1 THEN 10 * parseInt(fraction)
                ELSE parseInt(fraction)
    IN  IF negative THEN 0 - (100 * whole + part) ELSE 100 * whole + part

\* The HSL record, in hundredths, of a role value "h s% l%".
ReadHsl(value) ==
    LET spaces == Ascending({i \in 1..Len(value) : CharAt(value, i) = " "})
    IN  HSL(Decimal(SubSeq(value, 1, spaces[1] - 1)),
            Decimal(SubSeq(value, spaces[1] + 1, spaces[2] - 2)),
            Decimal(SubSeq(value, spaces[2] + 1, Len(value) - 1)))

\* Distance between two hues on the circle, in hundredths of a degree.
HueDistance(a, b) == Min(Abs(a - b), 36000 - Abs(a - b))

\* The colours eligible as accent beside a primary p (hundredths).
AccentCandidates(p) ==
    {i \in 1..Len(colorMap) :
        /\ colorMap[i].hsl.s >= 250
        /\ colorMap[i].hsl.l >= 200 /\ colorMap[i].hsl.l <= 800
        /\ HueDistance(10 * colorMap[i].hsl.h, p.h) > 6000}

C22_DarkPrimaryAndAccent ==
    Done =>
        LET lightPrimary == ReadHsl(theme.light.primary)
            lightAccent == ReadHsl(theme.light.accent)
        IN  /\ ReadHsl(theme.dark.primary) =
                   HSL(lightPrimary.h, lightPrimary.s, Min(lightPrimary.l + 2000, 9000))
            /\ ReadHsl(theme.dark.accent) =
                   HSL(lightAccent.h, lightAccent.s, Min(lightAccent.l + 1000, 8000))

\* A selected primary and a selected accent, both below the lightness caps.
C22_Witness ==
    /\ Done
    /\ sel.primaryCandidate # NULL
    /\ sel.accentCandidate # NULL
    /\ ReadHsl(theme.dark.primary).l = ReadHsl(theme.light.primary).l + 2000
    /\ ReadHsl(theme.dark.accent).l = ReadHsl(theme.light.accent).l + 1000

\* C23: light.primaryForeground has the primary's hue, saturation
\* min(primarySaturation, 50) and lightness 10 when the primary is a light
\* colour, 98 otherwise; dark.primaryForeground has the primary's hue,
\* saturation 50 and lightness 10 whatever the primary.
C23_PrimaryForeground ==
    Done =>
        LET p == ReadHsl(theme.light.primary)
        IN  /\ ReadHsl(theme.light.primaryForeground) =
                   HSL(p.h, Min(p.s, 5000),
                       IF getLuminance(sel.primary) > 500000000 THEN 1000 ELSE 9800)
            /\ ReadHsl(theme.dark.primaryForeground) = HSL(p.h, 5000, 1000)

\* A light primary: both themes put lightness 10 on it.
C23_Witness ==
    /\ Done
    /\ sel.primaryCandidate # NULL
    /\ getLuminance(sel.primary) > 500000000
    /\ ReadHsl(theme.light.primaryForeground).l = 1000
    /\ ReadHsl(theme.dark.primaryForeground).l = 1000

Occurrences(seq, x) == Cardinality({i \in 1..Len(seq) : seq[i] = x})

\* Two sequences holding the same multiset.
SameMultiset(a, b) ==
    /\ Len(a) = Len(b)
    /\ \A i \in 1..Len(a) : Occurrences(a, a[i]) = Occurrences(b, a[i])

\* The distance between a channel's extremes over a non-empty colour list.
Spread(colors, key) ==
    LET vals == {Channel(colors[i], key) : i \in 1..Len(colors)}
    IN  (CHOOSE v \in vals : \A w \in vals : v >= w)
            - (CHOOSE v \in vals : \A w \in vals : v <= w)

\* A largest bucket: no bucket holds more colours.
Largest(bs, i) == \A j \in 1..Len(bs) : Len(bs[j].colors) <= Len(bs[i].colors)

\* One iteration that stays in the loop: a largest bucket b of two colours or
\* more gives way to its lower half (Len \div 2 colours) and its upper half,
\* taken from its colours ordered along a channel of greatest range; the other
\* buckets stay, and the bucket count rises by one without passing maxColors.
SplitStep ==
    /\ Len(buckets') = Len(buckets) + 1
    /\ Len(buckets') <= maxColors
    /\ \E b \in 1..Len(buckets) :
           LET old == buckets[b].colors
               low == buckets'[1].colors
               high == buckets'[Len(buckets')].colors
               halves == low \o high
           IN  /\ Largest(buckets, b)
               /\ Len(old) >= 2
               /\ Len(low) = Len(old) \div 2
               /\ SameMultiset(halves, old)
               /\ \E key \in {"r", "g", "b"} :
                      /\ \A k \in {"r", "g", "b"} : Spread(old, key) >= Spread(old, k)
                      /\ \A i, j \in 1..Len(halves) :
                             i < j => Channel(halves[i], key) <= Channel(halves[j], key)
               /\ SameMultiset(SubSeq(buckets', 2, Len(buckets)),
                               SelectSeq([i \in 1..Len(buckets) |->
                                            IF i = b THEN NULL ELSE buckets[i]],
                                         LAMBDA x : x # NULL))

\* One iteration that leaves the loop: the target is met or no bucket holds
\* two colours.
StopStep ==
    \/ Len(buckets) >= maxColors
    \/ \A i \in 1..Len(buckets) : Len(buckets[i].colors) < 2

\* C25: medianCutQuantize terminates for every pixel list and every maxColors:
\* each iteration either stops, or replaces the largest bucket by its two
\* halves, split at the midpoint of its colours ordered along the channel of
\* greatest range, which raises the bucket count by exactly one, up to
\* maxColors.
C25_QuantizeTerminates ==
    /\ <>(qpc = "done")
    /\ [][qpc = "loop" => IF qpc' = "loop" THEN SplitStep ELSE StopStep]_vars

\* A run that split twice and returned maxColors colours.
C25_Witness ==
    /\ qpc = "done"
    /\ maxColors = 3
    /\ Len(quantized) = 3
    /\ Len(pixels) > 3

\* C26: on a non-empty pixel list, at every iteration and when the averages
\* are taken, no bucket is empty, each count is the number of colours its
\* bucket holds, and the buckets together hold exactly the input pixels, as a
\* multiset: every average is over at least one pixel.
C26_BucketsPartitionPixels ==
    (qpc \in {"loop", "average", "done"} /\ Len(pixels) > 0) =>
        /\ \A i \in 1..Len(buckets) :
               /\ Len(buckets[i].colors) >= 1
               /\ buckets[i].count = Len(buckets[i].colors)
        /\ Sum([i \in 1..Len(buckets) |-> Len(buckets[i].colors)]) = Len(pixels)
        /\ \A c \in PixelPalette :
               Sum([i \in 1..Len(buckets) |-> Occurrences(buckets[i].colors, c)])
                   = Occurrences(pixels, c)

\* Averages about to be taken over three buckets, one of them a single pixel
\* and one holding a repeated colour.
C26_Witness ==
    /\ qpc = "average"
    /\ Len(buckets) = 3
    /\ \E i \in 1..3 : Len(buckets[i].colors) = 1
    /\ \E i \in 1..3 : /\ Len(buckets[i].colors) = 2
                        /\ buckets[i].colors[1] = buckets[i].colors[2]

\* The colours the frequency fallback of findPrimaryColor would consider.
FallbackCandidates ==
    {i \in 1..Len(colorMap) :
        /\ colorMap[i].hsl.s > 200
        /\ colorMap[i].hsl.l > 150
        /\ colorMap[i].hsl.l < 850}

\* C27: whenever no colour qualifies for a hue bucket, no colour qualifies
\* for the frequency fallback either (saturation > 20, 15 < lightness < 85),
\* so the primary is the default RGB(24, 24, 27): the fallback never selects a
\* colour.
C27_FallbackNeverSelects ==
    Selected =>
        /\ (Len(HueGroups) = 0 \/ \A i \in 1..Len(colorMap) : ~Bucketable(colorMap[i].hsl))
               => /\ FallbackCandidates = {}
                  /\ sel.primaryCandidate = NULL
                  /\ sel.primary = RGB(24, 24, 27)
        /\ sel.primaryCandidate # NULL =>
               \E k \in 1..Len(HueGroups) : \E i \in 1..Len(HueGroups[k].colors) :
                   HueGroups[k].colors[i] = sel.primaryCandidate

\* Two colours or more, one of them fully saturated, and none in a bucket.
C27_Witness ==
    /\ Selected
    /\ Len(colorMap) >= 2
    /\ Len(HueGroups) = 0
    /\ \E i \in 1..Len(colorMap) : colorMap[i].hsl.s = 1000
    /\ sel.primary = RGB(24, 24, 27)

\* C28: the light theme's background colour is never darker than the dark
\* theme's: luminance(light background) >= luminance(dark background) for
\* every input, the empty one and the one-colour ones included.
C28_LightBackgroundNotDarker ==
    Selected => getLuminance(sel.lightBackground) >= getLuminance(sel.darkBackground)

\* Both backgrounds taken from the colours, and different.
C28_Witness ==
    /\ Selected
    /\ Len(colorMap) >= 3
    /\ sel.lightBackground \in Colors /\ sel.darkBackground \in Colors
    /\ getLuminance(sel.lightBackground) > getLuminance(sel.darkBackground)

\* C29 as stated: the lightness of dark.accent is at least the lightness of
\* light.accent, for every input, whether the accent was selected or
\* synthesised.
C29_DarkAccentNotDarker ==
    Done => ReadHsl(theme.dark.accent).l >= ReadHsl(theme.light.accent).l

\* C29: the lightness of dark.accent is min(light.accent's lightness + 10,
\* 80).  It is at least light.accent's lightness whenever the accent was
\* selected from the colours (lightness at most 80); it is lower exactly when
\* the accent was synthesised from a primary of lightness above 80.
C29_DarkAccentLightness ==
    Done =>
        LET lightAccent == ReadHsl(theme.light.accent)
            darkAccent == ReadHsl(theme.dark.accent)
        IN  /\ darkAccent.l = Min(lightAccent.l + 1000, 8000)
            /\ sel.accentCandidate # NULL => darkAccent.l >= lightAccent.l
            /\ darkAccent.l < lightAccent.l <=>
                   /\ sel.accentCandidate = NULL
                   /\ ReadHsl(theme.light.primary).l > 8000
                   /\ lightAccent.l = ReadHsl(theme.light.primary).l

\* An accent synthesised from a primary of lightness 90: the dark accent, at
\* 80, is darker than the light one.
C29_Witness ==
    /\ Done
    /\ sel.primaryCandidate # NULL
    /\ sel.accentCandidate = NULL
    /\ ReadHsl(theme.light.accent).l = 9000
    /\ ReadHsl(theme.dark.accent).l = 8000

(***************************************************************************)
(* The loading flag                                                        *)
(***************************************************************************)
\* C30: once processImage has set isLoading to true, isLoading is eventually
\* set back to false on every path: the image is decoded and its colours are
\* reported, the 2D canvas context is unavailable, or the image fails to load.
C30_LoadingEventuallyReset == isLoading ~> ~isLoading
====
